---------------------------- MODULE Spec2Model ----------------------------
(***************************************************************************)
(* A model of the embedding pipeline of scripts/build_docv2.py:            *)
(*   - EmbeddingCache (one pickle file per content key, hit/miss/save      *)
(*     counters),                                                          *)
(*   - OptimizedSentenceTransformer.encode_with_cache,                     *)
(*   - generate_embeddings_sequential / generate_embeddings_batch,         *)
(*   - validate_embedding_quality,                                         *)
(*   - main from the validation of the embeddings to the final summary,    *)
(*   - EnhancedDocumentProcessor (primary and context view) and            *)
(*     calculate_complexity_score,                                         *)
(* and of search_cards of scripts/search_vectordb.py.                      *)
(*                                                                         *)
(* Vectors.  An embedding is modelled as a constant vector: dim components *)
(* that all hold val, or that all hold NaN when nan is TRUE.  np.zeros(n)  *)
(* is the vector with val = 0.  len(), np.isnan().any() and                *)
(* np.linalg.norm() < 1e-8 are computed on this representation exactly.    *)
(*                                                                         *)
(* Cache directory.  files maps a file name (the cache key) to the content *)
(* of the file; a name outside DOMAIN files does not exist.  A content     *)
(* with ok = FALSE is a file pickle.load cannot read.  sha256 is modelled  *)
(* as injective: the key is the hashed content string itself.              *)
(*                                                                         *)
(* File system.  In the specifications below open/dump/unlink do what they *)
(* are asked on an accessible path; a file becomes unreadable only through *)
(* the environment action CorruptEntry.                                    *)
(***************************************************************************)
EXTENDS Integers, Sequences, FiniteSets, TLC

VARIABLES
    files,          \* cache_dir: file name -> [ok, vec]
    cache_stats,    \* EmbeddingCache.cache_stats
    written,        \* history: key -> [first, last, by] of the set calls on it
    last,           \* history: the last call (or environment event) and its outcome
    generator,      \* which generator runs: "sequential", "batch" or "none"
    pc,             \* where the embedding generator stands
    dim,            \* output dimensionality of the embedding model in use
    document_sets,  \* generate_embeddings_sequential: doc_type -> documents
    batch_size,     \* generate_embeddings_batch: batch_size
    view_idx,       \* generate_embeddings_sequential: position of the for loop
    batch_start,    \* generate_embeddings_batch: i of the for loop
    pending,        \* encode_with_cache: its locals while model.encode runs
    inflight,       \* the model invocations that have started and not ended
    results,        \* generate_embeddings_sequential: results
    all_embeddings, \* generate_embeddings_batch: all_embeddings
    invocations,    \* history: the model invocations started, in order
    lookups,        \* history: doc_type -> what the cache lookup of that view found
    failed,         \* history: the model invocations that raised
    embeddings,     \* validate_embedding_quality: embeddings
    documents_arg,  \* validate_embedding_quality: documents
    metrics,        \* validate_embedding_quality: the report returned
    main_pc,        \* main: the statement the build stands at
    records,        \* main: records
    embedding_results, \* main: embedding_results, doc_type -> embeddings
    quality,        \* main: primary_quality, keyword_quality, context_quality
    table,          \* the store magic_cards as a process opening it finds it
    table_before,   \* history: the store when the build started
    raised,         \* main: the exception that ended the build, or "none"
    seen,           \* history: the stores that connect_to_vectordb has opened
    search_pc,      \* search_cards: "idle", "called" or "returned"
    corpus,         \* the rows of the table searched, as the store holds them
    limit,          \* search_cards: limit
    raw_results,    \* search_cards: raw_results as table.search returned them
    unique_results, \* search_cards: the list returned
    examined,       \* search_cards: how many of the sorted rows the loop looked at
    card_pc,        \* the document processor: "idle", "called" or "returned"
    card,           \* the card record handed to the function called
    primary_doc,    \* create_primary_document: the words of the text returned
    context_parts,  \* create_context_document: what was appended to parts
    context_tags,   \* create_context_document: the tags the spell handler gave
    processor,      \* the EnhancedDocumentProcessor instances, each by its tables
    calls,          \* the calls on records so far: what each returned or raised
    cache_dir,      \* the cache directory as the processes that share it see it
    procs,          \* each process: its EmbeddingCache and where its call stands
    history,        \* what the calls of the processes returned so far
    source_rows,    \* main: the rows fetched from the cards table
    row_loop,       \* main: the lists it builds from the rows, and where it stands
    view_vectors,   \* main: embedding_results, the vectors of each view
    complexity_score \* calculate_complexity_score: the score, in thousandths

cacheVars == <<files, cache_stats, written, last>>
buildVars == <<generator, pc, dim, document_sets, batch_size, view_idx, batch_start,
               pending, inflight, results, all_embeddings, invocations, lookups,
               failed>>
validateVars == <<embeddings, documents_arg, metrics>>
mainVars == <<main_pc, records, embedding_results, quality, table, table_before,
              raised, seen>>
searchVars == <<search_pc, corpus, limit, raw_results, unique_results, examined>>
cardVars == <<card_pc, card, primary_doc, context_parts, context_tags,
              complexity_score, processor, calls>>
sharedVars == <<cache_dir, procs, history>>
rowVars == <<source_rows, row_loop, view_vectors>>

\* What the actions of one component leave alone.
notCacheVars == <<buildVars, validateVars, mainVars, searchVars, cardVars,
                 sharedVars, rowVars>>
notBuildVars == <<validateVars, mainVars, searchVars, cardVars, sharedVars, rowVars>>
notValidateVars == <<cacheVars, buildVars, mainVars, searchVars, cardVars,
                    sharedVars, rowVars>>
notMainVars == <<cacheVars, buildVars, validateVars, searchVars, cardVars,
                sharedVars, rowVars>>
notSearchVars == <<cacheVars, buildVars, validateVars, mainVars, cardVars,
                  sharedVars, rowVars>>
notCardVars == <<cacheVars, buildVars, validateVars, mainVars, searchVars,
                sharedVars, rowVars>>
notSharedVars == <<cacheVars, buildVars, validateVars, mainVars, searchVars,
                  cardVars, rowVars>>
notRowVars == <<cacheVars, buildVars, validateVars, mainVars, searchVars,
               cardVars, sharedVars>>

-----------------------------------------------------------------------------
(* Values *)

Vec(d, c) == [dim |-> d, val |-> c, nan |-> FALSE]
NanVec(d) == [dim |-> d, val |-> 0, nan |-> TRUE]

None == [some |-> FALSE, vec |-> Vec(0, 0)]
Some(v) == [some |-> TRUE, vec |-> v]

Pickled(v) == [ok |-> TRUE, vec |-> v]
Unreadable == [ok |-> FALSE, vec |-> Vec(0, 0)]

Remove(f, k) == [x \in DOMAIN f \ {k} |-> f[x]]
Put(f, k, v) == [x \in DOMAIN f \cup {k} |-> IF x = k THEN v ELSE f[x]]

-----------------------------------------------------------------------------
(* Bounds and input sets *)

MaxRequests == 2
MaxSaves == 2

ModelNames == {"m", "m:a"}
ViewTypes == {"p", "a:p"}
Texts == {"x", "y"}
CallVectors == {Vec(384, 1), Vec(384, 2)}

MaxTexts == 3               \* longest list handed to encode_with_cache
MaxEncodeRequests == 4      \* cache lookups made by the encode_with_cache calls
EncodeViews == {"primary", "keyword"}

-----------------------------------------------------------------------------
(* EmbeddingCache *)

CacheKey(text, model_name, embedding_type) ==
    model_name \o ":" \o embedding_type \o ":" \o text

StatsInit == [hits |-> 0, misses |-> 0, saves |-> 0]

\* get, lines 891-913: the value returned, the directory and the counters after it.
\* An unreadable file makes pickle.load raise inside the try; the handler unlinks the
\* file and falls through to the miss.  Nothing propagates to the caller.
GetOutcomeKeepsUnreadable(f, stats, key) ==
    IF key \in DOMAIN f /\ f[key].ok
    THEN [ret |-> Some(f[key].vec), files |-> f,
          stats |-> [stats EXCEPT !.hits = @ + 1], raised |-> FALSE]
    ELSE [ret |-> None, files |-> f,
          stats |-> [stats EXCEPT !.misses = @ + 1], raised |-> FALSE]

GetOutcome(f, stats, key) ==
    IF key \in DOMAIN f /\ f[key].ok
    THEN [ret |-> Some(f[key].vec), files |-> f,
          stats |-> [stats EXCEPT !.hits = @ + 1], raised |-> FALSE]
    ELSE [ret |-> None,
          files |-> IF key \in DOMAIN f THEN Remove(f, key) ELSE f,
          stats |-> [stats EXCEPT !.misses = @ + 1], raised |-> FALSE]

\* A set that refuses to touch an existing entry (write-once).
SetOutcomeKeepsExisting(f, stats, key, embedding) ==
    IF key \in DOMAIN f
    THEN [files |-> f, stats |-> stats, raised |-> FALSE]
    ELSE [files |-> Put(f, key, Pickled(embedding)),
          stats |-> [stats EXCEPT !.saves = @ + 1], raised |-> FALSE]

\* A set that creates the file exclusively and lets the error escape.
SetOutcomeExclusive(f, stats, key, embedding) ==
    IF key \in DOMAIN f
    THEN [files |-> f, stats |-> stats, raised |-> TRUE]
    ELSE [files |-> Put(f, key, Pickled(embedding)),
          stats |-> [stats EXCEPT !.saves = @ + 1], raised |-> FALSE]

\* set, lines 915-927: open(cache_path, "wb") truncates or creates the file and
\* pickle.dump writes the vector; the counter follows the write.
SetOutcome(f, stats, key, embedding) ==
    [files |-> Put(f, key, Pickled(embedding)),
     stats |-> [stats EXCEPT !.saves = @ + 1], raised |-> FALSE]

\* What a path holds: the history fields "before" of a call.
Absent == [exists |-> FALSE, content |-> Unreadable]
Content(f, key) == IF key \in DOMAIN f THEN [exists |-> TRUE, content |-> f[key]]
                   ELSE Absent

\* History of the set calls on a key.
WrittenAfter(w, key, embedding, triple) ==
    IF key \in DOMAIN w
    THEN [w EXCEPT ![key].last = embedding, ![key].by = triple]
    ELSE Put(w, key, [first |-> embedding, last |-> embedding, by |-> triple])

Get(text, model_name, embedding_type) ==
    LET key == CacheKey(text, model_name, embedding_type)
        out == GetOutcome(files, cache_stats, key)
    IN /\ cache_stats.hits + cache_stats.misses < MaxRequests
       /\ files' = out.files
       /\ cache_stats' = out.stats
       /\ last' = [op |-> "get", text |-> text, model |-> model_name,
                   view |-> embedding_type, key |-> key, ret |-> out.ret,
                   raised |-> out.raised, before |-> Content(files, key),
                   stats_before |-> cache_stats]
       /\ UNCHANGED written

Set(text, model_name, embedding_type, embedding) ==
    LET key == CacheKey(text, model_name, embedding_type)
        out == SetOutcome(files, cache_stats, key, embedding)
        triple == <<text, model_name, embedding_type>>
    IN /\ cache_stats.saves < MaxSaves
       /\ files' = out.files
       /\ cache_stats' = out.stats
       /\ written' = WrittenAfter(written, key, embedding, triple)
       /\ last' = [op |-> "set", text |-> text, model |-> model_name,
                   view |-> embedding_type, key |-> key, vec |-> embedding,
                   raised |-> out.raised, before |-> Content(files, key),
                   repeat |-> /\ last.op = "set"
                              /\ last.key = key
                              /\ <<last.text, last.model, last.view>> = triple
                              /\ last.vec = embedding]

\* Environment: a stored file becomes unreadable (truncated, damaged on disk).
CorruptEntry(key) ==
    /\ key \in DOMAIN files
    /\ files[key].ok
    /\ files' = [files EXCEPT ![key] = Unreadable]
    /\ last' = [op |-> "corrupt", key |-> key]
    /\ UNCHANGED <<cache_stats, written>>

-----------------------------------------------------------------------------
(* OptimizedSentenceTransformer.encode_with_cache *)

\* self.model_name of the wrapper main() builds (line 1338).
model_name == "all-MiniLM-L6-v2"

Range(seq) == {seq[i] : i \in DOMAIN seq}
SeqsUpTo(S, n) == UNION {[1..k -> S] : k \in 0..n}

\* A lookup loop that takes every text for a miss.
LookupFromAllMisses(acc, texts, embedding_type, model, i) ==
    [acc EXCEPT !.texts_to_encode = texts,
                !.cache_indices = [n \in DOMAIN texts |-> n]]

\* Lines 986-997: one cache.get per text, in order.  cached_embeddings holds the
\* pairs (i, vector) of the hits; texts_to_encode and cache_indices the misses.
RECURSIVE LookupFrom(_, _, _, _, _)
LookupFrom(acc, texts, embedding_type, model, i) ==
    IF i > Len(texts) THEN acc
    ELSE LET got == GetOutcome(acc.files, acc.stats,
                               CacheKey(texts[i], model, embedding_type))
             nxt == IF got.ret.some
                    THEN [acc EXCEPT !.files = got.files, !.stats = got.stats,
                              !.cached_embeddings = Append(@, <<i, got.ret.vec>>)]
                    ELSE [acc EXCEPT !.files = got.files, !.stats = got.stats,
                              !.texts_to_encode = Append(@, texts[i]),
                              !.cache_indices = Append(@, i)]
         IN LookupFrom(nxt, texts, embedding_type, model, i + 1)

Lookup(f, stats, texts, embedding_type) ==
    LookupFrom([files |-> f, stats |-> stats, cached_embeddings |-> <<>>,
                texts_to_encode |-> <<>>, cache_indices |-> <<>>],
               texts, embedding_type, model_name, 1)

\* self.model.encode(texts_to_encode): one vector per text.  out is what the model
\* computes for each text in this invocation.
ModelEncode(texts_to_encode, out) ==
    [j \in 1..Len(texts_to_encode) |-> out[texts_to_encode[j]]]

Min(a, b) == IF a < b THEN a ELSE b

\* A store loop that writes nothing back.
StoreFromSkips(acc, texts_to_encode, new_embeddings, embedding_type, j) == acc

\* Lines 1016-1017: cache.set for each pair of zip(texts_to_encode, new_embeddings).
RECURSIVE StoreFrom(_, _, _, _, _)
StoreFrom(acc, texts_to_encode, new_embeddings, embedding_type, j) ==
    IF j > Min(Len(texts_to_encode), Len(new_embeddings)) THEN acc
    ELSE LET key == CacheKey(texts_to_encode[j], model_name, embedding_type)
             put == SetOutcome(acc.files, acc.stats, key, new_embeddings[j])
             nxt == [files |-> put.files, stats |-> put.stats,
                     written |-> WrittenAfter(acc.written, key, new_embeddings[j],
                                    <<texts_to_encode[j], model_name, embedding_type>>)]
         IN StoreFrom(nxt, texts_to_encode, new_embeddings, embedding_type, j + 1)

\* Lines 1023-1024 and 1027-1028: result[i] = embedding for each pair, in order.
RECURSIVE Place(_, _, _)
Place(result, pairs, j) ==
    IF j > Len(pairs) THEN result
    ELSE Place([result EXCEPT ![pairs[j][1]] = Some(pairs[j][2])], pairs, j + 1)

Zip(a, b) == [j \in 1..Min(Len(a), Len(b)) |-> <<a[j], b[j]>>]

\* An assembly that puts the new vectors at the front instead of at cache_indices.
CombinePacksNew(n, cached_embeddings, cache_indices, new_embeddings) ==
    Place(Place([i \in 1..n |-> None], cached_embeddings, 1),
          Zip([j \in 1..Len(cache_indices) |-> j], new_embeddings), 1)

\* Lines 1019-1030: result = [None] * len(texts), then the two placement loops.
Combine(n, cached_embeddings, cache_indices, new_embeddings) ==
    Place(Place([i \in 1..n |-> None], cached_embeddings, 1),
          Zip(cache_indices, new_embeddings), 1)

\* History: some text of this call was passed to the model by the call right
\* before it, an encode_with_cache of the same view that returned.
EncodedJustBefore(texts, embedding_type) ==
    /\ last.op = "encode"
    /\ last.view = embedding_type
    /\ Range(texts) \cap Range(last.texts_to_encode) # {}

\* encode_with_cache, lines 979-1030, the model returning.
EncodeWithCache(texts, embedding_type, out) ==
    LET look == Lookup(files, cache_stats, texts, embedding_type)
        new_embeddings == IF look.texts_to_encode # <<>>
                          THEN ModelEncode(look.texts_to_encode, out) ELSE <<>>
        stored == StoreFrom([files |-> look.files, stats |-> look.stats,
                             written |-> written],
                            look.texts_to_encode, new_embeddings, embedding_type, 1)
        result == Combine(Len(texts), look.cached_embeddings, look.cache_indices,
                          new_embeddings)
    IN /\ cache_stats.hits + cache_stats.misses + Len(texts) <= MaxEncodeRequests
       /\ files' = stored.files
       /\ cache_stats' = stored.stats
       /\ written' = stored.written
       /\ last' = [op |-> "encode", view |-> embedding_type, texts |-> texts,
                   result |-> result, texts_to_encode |-> look.texts_to_encode,
                   new_embeddings |-> new_embeddings, out |-> out,
                   files_before |-> files,
                   again |-> EncodedJustBefore(texts, embedding_type)]

\* encode_with_cache with self.model.encode raising: the lookups are done, nothing
\* is stored, and the exception leaves the call.
EncodeWithCacheRaises(texts, embedding_type) ==
    LET look == Lookup(files, cache_stats, texts, embedding_type)
    IN /\ cache_stats.hits + cache_stats.misses + Len(texts) <= MaxEncodeRequests
       /\ look.texts_to_encode # <<>>
       /\ files' = look.files
       /\ cache_stats' = look.stats
       /\ last' = [op |-> "encode_raised", view |-> embedding_type, texts |-> texts,
                   texts_to_encode |-> look.texts_to_encode]
       /\ UNCHANGED written

-----------------------------------------------------------------------------
vars == <<cacheVars, buildVars, validateVars, mainVars, searchVars, cardVars,
          sharedVars, rowVars>>

\* The locals of encode_with_cache after its lookup loop.
Locals(look) == [cached_embeddings |-> look.cached_embeddings,
                 texts_to_encode |-> look.texts_to_encode,
                 cache_indices |-> look.cache_indices]
NoPending == [cached_embeddings |-> <<>>, texts_to_encode |-> <<>>,
              cache_indices |-> <<>>]

\* No generator is running.
GeneratorIdle ==
    /\ generator = "none"
    /\ failed = {}
    /\ pc = "idle"
    /\ dim = 384
    /\ document_sets = <<>>
    /\ batch_size = 32
    /\ view_idx = 1
    /\ batch_start = 0
    /\ pending = NoPending
    /\ inflight = {}
    /\ results = <<>>
    /\ all_embeddings = <<>>
    /\ invocations = <<>>
    /\ lookups = <<>>

\* No validation has been asked for.
NotRun == [status |-> "not run"]
ValidatorIdle ==
    /\ embeddings = <<>>
    /\ documents_arg = <<>>
    /\ metrics = NotRun

\* No build is running and the store does not exist.
NoTable == [exists |-> FALSE, rows |-> 0, indexes |-> {}, build |-> "none"]
MainIdle ==
    /\ main_pc = "idle"
    /\ records = <<>>
    /\ embedding_results = <<>>
    /\ quality = <<>>
    /\ table = NoTable
    /\ table_before = NoTable
    /\ raised = "none"
    /\ seen = {}

\* No search has been asked for.
SearchIdle ==
    /\ search_pc = "idle"
    /\ corpus = <<>>
    /\ limit = 0
    /\ raw_results = <<>>
    /\ unique_results = <<>>
    /\ examined = 0

\* No card is being processed.
NoCard == [name |-> ""]
CardIdle ==
    /\ card_pc = "idle"
    /\ card = NoCard
    /\ primary_doc = <<>>
    /\ context_parts = <<>>
    /\ context_tags = <<>>
    /\ processor = <<>>
    /\ calls = <<>>
    /\ complexity_score = 0

\* main is not in its row loop.
RowsIdle ==
    /\ source_rows = <<>>
    /\ row_loop = [pc |-> "idle"]
    /\ view_vectors = <<>>

\* No process shares the cache directory.
SharedIdle ==
    /\ cache_dir = [exists |-> TRUE, entry |-> 0, inodes |-> <<>>]
    /\ procs = <<>>
    /\ history = <<>>

Init ==
    /\ files = <<>>
    /\ cache_stats = StatsInit
    /\ written = <<>>
    /\ last = [op |-> "init"]
    /\ GeneratorIdle
    /\ ValidatorIdle
    /\ MainIdle
    /\ SearchIdle
    /\ CardIdle
    /\ SharedIdle
    /\ RowsIdle

Next ==
    \/ \E t \in Texts, m \in ModelNames, e \in ViewTypes :
          Get(t, m, e) /\ UNCHANGED notCacheVars
    \/ \E t \in Texts, m \in ModelNames, e \in ViewTypes, v \in CallVectors :
          Set(t, m, e, v) /\ UNCHANGED notCacheVars
    \/ \E key \in DOMAIN files : CorruptEntry(key) /\ UNCHANGED notCacheVars

Spec == Init /\ [][Next]_vars

-----------------------------------------------------------------------------
(* Claims on the cache, checked under Spec *)

LastIsGet == last.op = "get"
LastIsSet == last.op = "set"

C3_SetIdempotent ==
    (LastIsSet /\ last.repeat) =>
        /\ last.before.exists
        /\ files[last.key] = last.before.content
        /\ files[last.key] = Pickled(last.vec)
        /\ ~last.raised
C3_NoSetRaises == LastIsSet => ~last.raised
C3_SetTwice == C3_SetIdempotent /\ C3_NoSetRaises

C3_Witness_SecondIdenticalSet ==
    LastIsSet /\ last.repeat /\ cache_stats.saves = 2

\* C4: a get that finds an entry it cannot deserialize returns None without
\* raising, counts a miss (and no hit), and the entry is gone after the call.
FoundUnreadable == LastIsGet /\ last.before.exists /\ ~last.before.content.ok

C4_CorruptEntryIsMissAndRemoved ==
    FoundUnreadable =>
        /\ last.ret = None
        /\ ~last.raised
        /\ cache_stats.misses = last.stats_before.misses + 1
        /\ cache_stats.hits = last.stats_before.hits
        /\ last.key \notin DOMAIN files

C4_Witness_GetOnCorruptEntry == FoundUnreadable

\* C5 (as stated): two triples (model id, view type, text) that differ in a
\* component hash different content, so a get for one triple never returns the
\* vector that was set under another.
C5_DistinctTriplesNeverShare ==
    (LastIsGet /\ last.ret.some) =>
        written[last.key].by = <<last.text, last.model, last.view>>


-----------------------------------------------------------------------------
(* SpecEncode: calls of encode_with_cache on one wrapper, the model free to     *)
(* compute any vector for a text in each invocation.                            *)

\* The lists a further call may be given within the bounds.
CallTexts ==
    SeqsUpTo(Texts, Min(MaxTexts,
                        MaxEncodeRequests - (cache_stats.hits + cache_stats.misses)))

NextEncode ==
    \/ \E texts \in CallTexts, e \in EncodeViews :
          \E out \in [Range(Lookup(files, cache_stats, texts, e).texts_to_encode)
                          -> CallVectors] :
             EncodeWithCache(texts, e, out) /\ UNCHANGED notCacheVars
    \/ \E texts \in CallTexts, e \in EncodeViews :
          EncodeWithCacheRaises(texts, e) /\ UNCHANGED notCacheVars
    \/ \E key \in DOMAIN files : CorruptEntry(key) /\ UNCHANGED notCacheVars

SpecEncode == Init /\ [][NextEncode]_vars

LastIsEncode == last.op = "encode"

Hit(f, key) == key \in DOMAIN f /\ f[key].ok

\* C1: a second encode_with_cache call with the same (model name, view type, text),
\* right after the first one returned, returns for that text the vector the first
\* call returned and does not pass the text to the embedding model.
SecondCallIsCacheHit ==
    (last.op = "encode" /\ last'.op = "encode" /\ last'.view = last.view) =>
        \A j \in DOMAIN last'.texts : \A i \in DOMAIN last.texts :
            last'.texts[j] = last.texts[i] =>
                /\ last'.result[j] = last.result[i]
                /\ last'.texts[j] \notin Range(last'.texts_to_encode)

C1_SecondCallIsCacheHit == [][SecondCallIsCacheHit]_vars

C1_Witness_SecondCallAfterEncoding ==
    /\ LastIsEncode
    /\ last.again
    /\ last.texts_to_encode = <<>>

\* C6: the result of encode_with_cache has len(texts) elements and element i is the
\* vector for texts[i]: the cached one when the cache held a readable entry for it
\* at the call, the one the model computed for that text otherwise.
C6_ResultAlignedWithTexts ==
    LastIsEncode =>
        /\ Len(last.result) = Len(last.texts)
        /\ \A i \in DOMAIN last.texts :
              LET key == CacheKey(last.texts[i], model_name, last.view)
              IN IF Hit(last.files_before, key)
                 THEN last.result[i] = Some(last.files_before[key].vec)
                    ELSE /\ last.texts[i] \in DOMAIN last.out
                         /\ last.result[i] = Some(last.out[last.texts[i]])

C6_Witness_MixedBatchWithRepeat ==
    /\ LastIsEncode
    /\ Len(last.texts) = 3
    /\ last.texts[1] = last.texts[3]
    /\ last.texts[1] # last.texts[2]
    /\ Hit(last.files_before, CacheKey(last.texts[2], model_name, last.view))
    /\ ~Hit(last.files_before, CacheKey(last.texts[1], model_name, last.view))
    /\ last.result[2] # last.result[1]

\* C26: within one encode_with_cache call the texts passed to the model are the
\* inputs for which the cache held no readable entry at the call, in input order;
\* with every input cached the model is not invoked; and after the call every
\* text that was passed has a cache entry with the vector the model gave for it.
Uncached(texts, embedding_type, f) ==
    SelectSeq(texts, LAMBDA t : ~Hit(f, CacheKey(t, model_name, embedding_type)))

C26_ModelSeesOnlyUncached ==
    LastIsEncode =>
        /\ last.texts_to_encode = Uncached(last.texts, last.view, last.files_before)
        /\ Len(last.new_embeddings) = Len(last.texts_to_encode)
        /\ DOMAIN last.out = Range(last.texts_to_encode)
        /\ \A t \in Range(last.texts_to_encode) :
              LET key == CacheKey(t, model_name, last.view)
              IN /\ Hit(files, key)
                 /\ files[key].vec = last.out[t]

\* One input cached, one not, the uncached one twice.
C26_Witness_PartlyCached ==
    /\ LastIsEncode
    /\ Len(last.texts) = 3
    /\ Len(last.texts_to_encode) = 2
    /\ last.texts_to_encode[1] = last.texts_to_encode[2]
    /\ Hit(last.files_before, CacheKey(last.texts[2], model_name, last.view))

-----------------------------------------------------------------------------
(* generate_embeddings_sequential and generate_embeddings_batch *)

MaxDocs == 2                \* documents per view

fallback_dim == 384
ModelDims == {384, 768}     \* all-MiniLM-L6-v2, all-mpnet-base-v2
BatchSizes == {1, 2}

\* document_sets of main(), lines 1434-1438, in the order of the dict.
DocTypes == <<"primary", "keyword", "context">>

Zeros(n) == Vec(n, 0)
ModelVectors(d) == {Vec(d, 1), Vec(d, 2)}

Replicate(n, x) == [j \in 1..n |-> x]
Slice(seq, from, to) == [j \in 1..(Min(to, Len(seq)) - from + 1) |-> seq[from + j - 1]]

cacheFrame == UNCHANGED <<files, cache_stats, written, last>>

\* The caller of model.encode waits for it: control stays in the call.
AfterInvokeDetached == [pc |-> "seq_loop", view_idx |-> view_idx + 1]
AfterInvoke == [pc |-> "seq_encode", view_idx |-> view_idx]

\* Lines 1145-1147 with 986-997 and 1001: the next view, every document cached.
SeqViewAllCached ==
    LET doc_type == DocTypes[view_idx]
        docs == document_sets[doc_type]
        look == Lookup(files, cache_stats, docs, doc_type)
    IN /\ pc = "seq_loop"
       /\ view_idx <= Len(DocTypes)
       /\ look.texts_to_encode = <<>>
       /\ files' = look.files
       /\ cache_stats' = look.stats
       /\ results' = Put(results, doc_type,
                         Combine(Len(docs), look.cached_embeddings,
                                 look.cache_indices, <<>>))
       /\ lookups' = Put(lookups, doc_type, Locals(look))
       /\ view_idx' = view_idx + 1
       /\ last' = [op |-> "encode", view |-> doc_type, texts |-> docs,
                   texts_to_encode |-> <<>>]
       /\ UNCHANGED <<written, generator, pc, dim, document_sets, batch_size,
                      batch_start, pending, inflight, all_embeddings, invocations,
                      failed>>

\* Lines 1145-1147 with 986-1007: the next view, model.encode entered.
SeqInvokeModel ==
    LET doc_type == DocTypes[view_idx]
        docs == document_sets[doc_type]
        look == Lookup(files, cache_stats, docs, doc_type)
    IN /\ pc = "seq_loop"
       /\ view_idx <= Len(DocTypes)
       /\ look.texts_to_encode # <<>>
       /\ files' = look.files
       /\ cache_stats' = look.stats
       /\ pending' = Locals(look)
       /\ lookups' = Put(lookups, doc_type, Locals(look))
       /\ inflight' = inflight \cup {doc_type}
       /\ invocations' = Append(invocations,
                                [id |-> doc_type, texts |-> look.texts_to_encode])
       /\ pc' = AfterInvoke.pc
       /\ view_idx' = AfterInvoke.view_idx
       /\ last' = [op |-> "lookup", view |-> doc_type, texts |-> docs]
       /\ UNCHANGED <<written, generator, dim, document_sets, batch_size,
                      batch_start, results, all_embeddings, failed>>

\* Lines 1007-1030 and 1147-1148: model.encode returns, the vectors are cached and
\* the ordered result of the view is kept.
SeqModelReturns(out) ==
    LET doc_type == DocTypes[view_idx]
        docs == document_sets[doc_type]
        new_embeddings == ModelEncode(pending.texts_to_encode, out)
        stored == StoreFrom([files |-> files, stats |-> cache_stats,
                             written |-> written],
                            pending.texts_to_encode, new_embeddings, doc_type, 1)
    IN /\ pc = "seq_encode"
       /\ files' = stored.files
       /\ cache_stats' = stored.stats
       /\ written' = stored.written
       /\ results' = Put(results, doc_type,
                         Combine(Len(docs), pending.cached_embeddings,
                                 pending.cache_indices, new_embeddings))
       /\ inflight' = inflight \ {doc_type}
       /\ pending' = NoPending
       /\ pc' = "seq_loop"
       /\ view_idx' = view_idx + 1
       /\ last' = [op |-> "encode", view |-> doc_type, texts |-> docs,
                   texts_to_encode |-> pending.texts_to_encode]
       /\ UNCHANGED <<generator, dim, document_sets, batch_size, batch_start,
                      all_embeddings, invocations, lookups, failed>>

\* Lines 1152-1158: model.encode raises; the except clause of the loop gives the
\* view one np.zeros(fallback_dim) per document.
SeqModelRaises ==
    LET doc_type == DocTypes[view_idx]
    IN /\ pc = "seq_encode"
       /\ results' = Put(results, doc_type,
                         Replicate(Len(document_sets[doc_type]),
                                   Some(Zeros(fallback_dim))))
       /\ inflight' = inflight \ {doc_type}
       /\ pending' = NoPending
       /\ pc' = "seq_loop"
       /\ view_idx' = view_idx + 1
       /\ last' = [op |-> "encode_raised", view |-> doc_type,
                   texts |-> document_sets[doc_type],
                   texts_to_encode |-> pending.texts_to_encode]
       /\ failed' = failed \cup {doc_type}
       /\ UNCHANGED <<files, cache_stats, written, generator, dim, document_sets,
                      batch_size, batch_start, all_embeddings, invocations,
                      lookups>>

\* Line 1160: return results.
SeqReturn ==
    /\ pc = "seq_loop"
    /\ view_idx > Len(DocTypes)
    /\ pc' = "done"
    /\ UNCHANGED <<files, cache_stats, written, last, generator, dim,
                   document_sets, batch_size, view_idx, batch_start, pending,
                   inflight, results, all_embeddings, invocations, lookups, failed>>

\* generate_embeddings_batch is given the documents of one view.
documents == document_sets[DocTypes[1]]
batch_docs == Slice(documents, batch_start + 1, batch_start + batch_size)

\* Lines 1180-1195: the next batch, model.encode entered.
BatchInvokeModel ==
    /\ pc = "batch_loop"
    /\ batch_start < Len(documents)
    /\ inflight' = inflight \cup {batch_start}
    /\ invocations' = Append(invocations, [id |-> batch_start, texts |-> batch_docs])
    /\ pc' = "batch_encode"
    /\ cacheFrame
    /\ UNCHANGED <<generator, dim, document_sets, batch_size, view_idx,
                   batch_start, pending, results, all_embeddings, lookups, failed>>

\* Lines 1190-1203: all_embeddings.extend(batch_embeddings).
BatchModelReturns(out) ==
    /\ pc = "batch_encode"
    /\ all_embeddings' = all_embeddings \o
                            [j \in 1..Len(batch_docs) |-> Some(out[batch_docs[j]])]
    /\ inflight' = inflight \ {batch_start}
    /\ batch_start' = batch_start + batch_size
    /\ pc' = "batch_loop"
    /\ cacheFrame
    /\ UNCHANGED <<generator, dim, document_sets, batch_size, view_idx, pending,
                   results, invocations, lookups, failed>>

\* Lines 1205-1210: one np.zeros(fallback_dim) per document of the failed batch.
BatchModelRaises ==
    /\ pc = "batch_encode"
    /\ all_embeddings' = all_embeddings \o
                            Replicate(Len(batch_docs), Some(Zeros(fallback_dim)))
    /\ inflight' = inflight \ {batch_start}
    /\ batch_start' = batch_start + batch_size
    /\ failed' = failed \cup {batch_start}
    /\ pc' = "batch_loop"
    /\ cacheFrame
    /\ UNCHANGED <<generator, dim, document_sets, batch_size, view_idx, pending,
                   results, invocations, lookups>>

\* Lines 1170-1171 and 1212-1213: return all_embeddings.
BatchReturn ==
    /\ pc = "batch_loop"
    /\ batch_start >= Len(documents)
    /\ pc' = "done"
    /\ UNCHANGED <<files, cache_stats, written, last, generator, dim,
                   document_sets, batch_size, view_idx, batch_start, pending,
                   inflight, results, all_embeddings, invocations, lookups, failed>>

\* A build starts on the cache directory earlier builds with the same model left:
\* the texts of cached have an entry under every view.  The three views hold one
\* document per record; the key separates the views, so the lists share their texts.
InitBuild ==
    /\ dim \in ModelDims
    /\ \E docs \in SeqsUpTo(Texts, MaxDocs) :
          document_sets = [d \in Range(DocTypes) |-> docs]
    /\ \/ /\ generator = "sequential"
          /\ pc = "seq_loop"
          /\ batch_size = 32
          /\ \E cached \in SUBSET Texts :
                files = [key \in {CacheKey(t, model_name, d) :
                                     t \in cached, d \in Range(DocTypes)}
                            |-> Pickled(Vec(dim, 3))]
       \/ /\ generator = "batch"
          /\ pc = "batch_loop"
          /\ batch_size \in BatchSizes
          /\ files = <<>>
    /\ cache_stats = StatsInit
    /\ written = <<>>
    /\ last = [op |-> "init"]
    /\ view_idx = 1
    /\ batch_start = 0
    /\ pending = NoPending
    /\ inflight = {}
    /\ results = <<>>
    /\ all_embeddings = <<>>
    /\ invocations = <<>>
    /\ lookups = <<>>
    /\ failed = {}
    /\ ValidatorIdle
    /\ MainIdle
    /\ SearchIdle
    /\ CardIdle
    /\ SharedIdle
    /\ RowsIdle

NextBuild ==
    \/ SeqViewAllCached /\ UNCHANGED notBuildVars
    \/ SeqInvokeModel /\ UNCHANGED notBuildVars
    \/ \E out \in [Range(pending.texts_to_encode) -> ModelVectors(dim)] :
          SeqModelReturns(out) /\ UNCHANGED notBuildVars
    \/ SeqModelRaises /\ UNCHANGED notBuildVars
    \/ SeqReturn /\ UNCHANGED notBuildVars
    \/ BatchInvokeModel /\ UNCHANGED notBuildVars
    \/ \E out \in [Range(batch_docs) -> ModelVectors(dim)] :
          BatchModelReturns(out) /\ UNCHANGED notBuildVars
    \/ BatchModelRaises /\ UNCHANGED notBuildVars
    \/ BatchReturn /\ UNCHANGED notBuildVars

SpecBuild == InitBuild /\ [][NextBuild]_vars

Sequential == generator = "sequential"
Batch == generator = "batch"

IsFallback(e) == e = Some(Zeros(fallback_dim))

\* C7 (as stated): when the model raises on one batch, only the items of that batch
\* get a zero-vector; every other item of the view keeps its cached or computed
\* vector, and the generator goes on with the remaining batches and views.
C7_OnlyFailedBatchZeroed ==
    /\ Sequential =>
          /\ failed \subseteq DOMAIN results
          /\ \A d \in DOMAIN results : \A i \in DOMAIN results[d] :
                IsFallback(results[d][i]) =>
                    d \in failed /\ i \in Range(lookups[d].cache_indices)
    /\ Batch =>
          \A i \in DOMAIN all_embeddings :
              IsFallback(all_embeddings[i]) =>
                  ((i - 1) \div batch_size) * batch_size \in failed

\* C8 (as stated): every vector of the batch produced for one view has the same
\* dimensionality, for every model dimensionality D and with zero-vector fallbacks
\* in the batch: the fallback has the model's dimensionality D.
SameDimension(batch) ==
    \A i \in DOMAIN batch : \A j \in DOMAIN batch :
        batch[i].vec.dim = batch[j].vec.dim

C8_OneDimensionPerBatch ==
    /\ \A d \in DOMAIN results : SameDimension(results[d])
    /\ SameDimension(all_embeddings)

\* C9: at most one model invocation is in progress at any time; the views are
\* encoded in the order primary, keyword, context, each encode over (returned or
\* failed, its result recorded) before the next starts; the batches of
\* generate_embeddings_batch are taken one at a time in text order.
DocTypeIndex(d) == CHOOSE n \in DOMAIN DocTypes : DocTypes[n] = d

C9_OneInvocationAtATime ==
    /\ Cardinality(inflight) <= 1
    /\ \A n \in DOMAIN invocations :
          invocations[n].id \in inflight => n = Len(invocations)
    /\ Sequential =>
          /\ \A a \in DOMAIN invocations : \A b \in DOMAIN invocations :
                a < b => DocTypeIndex(invocations[a].id)
                            < DocTypeIndex(invocations[b].id)
          /\ \A d \in inflight : DocTypeIndex(d) = view_idx
          /\ DOMAIN results = {DocTypes[n] : n \in 1..(view_idx - 1)}
    /\ Batch =>
          /\ \A n \in DOMAIN invocations :
                /\ invocations[n].id = (n - 1) * batch_size
                /\ invocations[n].texts =
                      Slice(documents, invocations[n].id + 1,
                            invocations[n].id + batch_size)
          /\ \A b \in inflight : Len(all_embeddings) = b

C9_Witness_ThirdViewEncoding ==
    /\ Sequential
    /\ inflight = {"context"}
    /\ Len(invocations) = 3
    /\ DOMAIN results = {"primary", "keyword"}

-----------------------------------------------------------------------------
(* validate_embedding_quality *)

MaxBatch == 10              \* longest batch handed to the validator

\* len(embedding), np.any(np.isnan(embedding)), np.linalg.norm(embedding) < 1e-8
\* on a vector whose components all hold val (or NaN): the norm of a NaN vector is
\* NaN and compares False.
VecLen(v) == v.dim
HasNan(v) == v.nan /\ v.dim > 0
NearZero(v) == ~HasNan(v) /\ (v.val = 0 \/ v.dim = 0)

\* Lines 1104-1105: zero_embeddings < len(embeddings) * 0.1.  The double product is
\* exact enough that the comparison agrees with 10 * zero < n for every batch length
\* up to 2000.
FewZeros(zero, n) == 10 * zero < n

\* Lines 1066-1083: the loop over embeddings.  An element that is no array (None)
\* has neither __len__ nor shape: the loop raises there.
RECURSIVE CountFrom(_, _, _, _)
CountFrom(acc, embs, expected_dim, i) ==
    IF i > Len(embs) THEN acc
    ELSE IF ~embs[i].some THEN [acc EXCEPT !.raised = TRUE]
    ELSE LET v == embs[i].vec
         IN CountFrom([acc EXCEPT
                          !.dimension_mismatches =
                              IF VecLen(v) # expected_dim THEN @ + 1 ELSE @,
                          !.nan_embeddings = IF HasNan(v) THEN @ + 1 ELSE @,
                          !.zero_embeddings = IF NearZero(v) THEN @ + 1 ELSE @],
                       embs, expected_dim, i + 1)

\* Lines 1101-1106 without the nan_embeddings == 0 conjunct.
ValidIgnoresNan(c, n) ==
    /\ c.dimension_mismatches = 0
    /\ FewZeros(c.zero_embeddings, n)

\* Lines 1101-1106: metrics["valid"].
Valid(c, n) ==
    /\ c.dimension_mismatches = 0
    /\ c.nan_embeddings = 0
    /\ FewZeros(c.zero_embeddings, n)

\* validate_embedding_quality, lines 1041-1123.  consistency_score is kept as the
\* fraction num/den; the magnitude statistics (avg, std) are reported only and left
\* out.  escaped: len(embeddings[0]) of line 1052 stands outside the try.
ValidateEmbeddingQuality(embs, docs) ==
    IF embs = <<>> \/ docs = <<>>
    THEN [status |-> "returned", valid |-> FALSE, error |-> TRUE]
    ELSE IF ~embs[1].some
    THEN [status |-> "escaped"]
    ELSE LET n == Len(embs)
             c == CountFrom([dimension_mismatches |-> 0, nan_embeddings |-> 0,
                             zero_embeddings |-> 0, raised |-> FALSE],
                            embs, VecLen(embs[1].vec), 1)
             issues == c.dimension_mismatches + c.nan_embeddings + c.zero_embeddings
         IN IF c.raised
            THEN [status |-> "returned", valid |-> FALSE, error |-> TRUE,
                  count |-> n, dimension |-> VecLen(embs[1].vec),
                  zero_embeddings |-> c.zero_embeddings,
                  nan_embeddings |-> c.nan_embeddings,
                  consistency_score |-> [num |-> 1, den |-> 1]]
            ELSE [status |-> "returned",
                  valid |-> Valid(c, n),
                  error |-> FALSE,
                  count |-> n, dimension |-> VecLen(embs[1].vec),
                  zero_embeddings |-> c.zero_embeddings,
                  nan_embeddings |-> c.nan_embeddings,
                  consistency_score |->
                      [num |-> IF n - issues < 0 THEN 0 ELSE n - issues, den |-> n]]

Validate ==
    /\ metrics = NotRun
    /\ metrics' = ValidateEmbeddingQuality(embeddings, documents_arg)
    /\ UNCHANGED <<embeddings, documents_arg>>

\* The batches the validator is given: runs of five kinds of element (a vector of
\* the model, a zero vector, a NaN vector, a vector of another dimensionality, a
\* missing element), the kinds in any rotation of this order.
ElementKinds == <<Some(Vec(384, 1)), Some(Zeros(384)), Some(NanVec(384)),
                  Some(Vec(768, 1)), None>>

RECURSIVE Runs(_, _, _)
Runs(counts, shift, j) ==
    IF j > Len(ElementKinds) THEN <<>>
    ELSE LET kind == ((j - 1 + shift) % Len(ElementKinds)) + 1
         IN Replicate(counts[kind], ElementKinds[kind]) \o Runs(counts, shift, j + 1)

RECURSIVE Sum(_, _)
Sum(counts, j) == IF j > Len(counts) THEN 0 ELSE counts[j] + Sum(counts, j + 1)

InitValidate ==
    /\ files = <<>>
    /\ cache_stats = StatsInit
    /\ written = <<>>
    /\ last = [op |-> "init"]
    /\ GeneratorIdle
    /\ MainIdle
    /\ SearchIdle
    /\ CardIdle
    /\ SharedIdle
    /\ RowsIdle
    /\ \E counts \in [1..Len(ElementKinds) -> 0..MaxBatch],
          shift \in 0..(Len(ElementKinds) - 1) :
          /\ Sum(counts, 1) <= MaxBatch
          /\ embeddings = Runs(counts, shift, 1)
    /\ documents_arg \in {<<>>, Replicate(Len(embeddings), "x")}
    /\ metrics = NotRun

NextValidate ==
    Validate /\ UNCHANGED notValidateVars

SpecValidate == InitValidate /\ [][NextValidate]_vars

Indices(embs, P(_)) == {i \in DOMAIN embs : P(embs[i].vec)}
WrongLength(v) == VecLen(v) # VecLen(embeddings[1].vec)

\* C10 (as stated): for a batch the validator examines, valid is false when a
\* dimension mismatch or a NaN vector exists or when more than 10% of the vectors
\* are near zero, and true otherwise: exactly 10% of zero vectors is still valid.
C10_ValidUnlessOverTenPercent ==
    (/\ metrics # NotRun
     /\ embeddings # <<>>
     /\ documents_arg # <<>>
     /\ \A i \in DOMAIN embeddings : embeddings[i].some) =>
        (metrics.valid <=>
            /\ Indices(embeddings, WrongLength) = {}
            /\ Indices(embeddings, HasNan) = {}
            /\ 10 * Cardinality(Indices(embeddings, NearZero)) <= Len(embeddings))

\* The batches of arrays the validator examines: embeddings and documents both
\* non-empty, every element an array.
Examined ==
    /\ metrics # NotRun
    /\ embeddings # <<>>
    /\ documents_arg # <<>>
    /\ \A i \in DOMAIN embeddings : embeddings[i].some

Defective(e) == e.vec.nan \/ e.vec.dim # embeddings[1].vec.dim
ZeroMagnitude(e) == ~e.vec.nan /\ e.vec.val = 0

\* C11: for every non-empty batch, valid is false when some vector holds a NaN
\* component or has a length other than the first vector's, and valid is true when
\* no vector has such a defect and every vector has a nonzero magnitude.
C11_DefectsFlaggedCleanPasses ==
    Examined =>
        /\ (\E i \in DOMAIN embeddings : Defective(embeddings[i]))
              => metrics.valid = FALSE
        /\ (\A i \in DOMAIN embeddings :
                ~Defective(embeddings[i]) /\ ~ZeroMagnitude(embeddings[i]))
              => metrics.valid = TRUE

C11_Witness_NanAmongGoodVectors ==
    /\ Examined
    /\ Len(embeddings) >= 3
    /\ \E i \in DOMAIN embeddings : embeddings[i].vec.nan
    /\ \E i \in DOMAIN embeddings : ~Defective(embeddings[i])
    /\ \A i \in DOMAIN embeddings : ~ZeroMagnitude(embeddings[i])
    /\ metrics.valid = FALSE
    /\ metrics.nan_embeddings >= 1

\* C27: for every non-empty batch, consistency_score is 1 - defect_count /
\* total_count, where defect_count is the number of vectors that have a length
\* other than the first vector's, hold a NaN or are near zero, and the score lies
\* in [0, 1].
DefectiveVectors ==
    {i \in DOMAIN embeddings :
        Defective(embeddings[i]) \/ ZeroMagnitude(embeddings[i])}

C27_ScoreIsShareOfSoundVectors ==
    Examined =>
        /\ metrics.consistency_score =
              [num |-> Len(embeddings) - Cardinality(DefectiveVectors),
               den |-> Len(embeddings)]
        /\ 0 <= metrics.consistency_score.num
        /\ metrics.consistency_score.num <= metrics.consistency_score.den

-----------------------------------------------------------------------------
(* main: validation, table creation, indexing, final summary                *)
(*                                                                          *)
(* The store.  table is what db.open_table("magic_cards") gives a process   *)
(* at this moment: whether the table exists, how many rows it holds, which  *)
(* vector columns have an index, and which build wrote it.  Each LanceDB    *)
(* call (create_table, add, create_index) commits its effect when it        *)
(* returns and leaves the table as it was when it raises.                   *)

MaxCards == 2               \* most records one build handles

VectorColumns == <<"primary_vector", "keyword_vector", "context_vector", "vector">>

\* A store some finished build left behind.
Complete(n, b) == [exists |-> TRUE, rows |-> n, indexes |-> Range(VectorColumns),
                   build |-> b]

\* What generate_embeddings_sequential returns for one view of n documents: the
\* vectors of the model, the zero fallback of a failed view, or vectors of the
\* model of which the first holds NaN.
ViewOutcomes(n) ==
    {Replicate(n, Some(Vec(384, 1))), Replicate(n, Some(Zeros(fallback_dim)))}
        \cup (IF n = 0 THEN {}
              ELSE {<<Some(NanVec(384))>> \o Replicate(n - 1, Some(Vec(384, 1)))})

\* Lines 1428-1447: main after generate_embeddings_sequential has returned.
InitMain ==
    /\ files = <<>>
    /\ cache_stats = StatsInit
    /\ written = <<>>
    /\ last = [op |-> "init"]
    /\ GeneratorIdle
    /\ ValidatorIdle
    /\ SearchIdle
    /\ CardIdle
    /\ SharedIdle
    /\ RowsIdle
    /\ main_pc = "validate"
    /\ \E n \in 0..MaxCards :
          /\ records = Replicate(n, "card")
          /\ embedding_results \in [Range(DocTypes) -> ViewOutcomes(n)]
    /\ quality = <<>>
    /\ table_before \in {NoTable} \cup {Complete(n, "previous") : n \in 1..MaxCards}
    /\ table = table_before
    /\ raised = "none"
    /\ seen = {}

\* Lines 1450-1459: the three calls of validate_embedding_quality, in order.  The
\* documents of a view are as many as the records.
ValidateQuality ==
    /\ main_pc = "validate"
    /\ LET d == DocTypes[Cardinality(DOMAIN quality) + 1]
           report == ValidateEmbeddingQuality(embedding_results[d],
                                              Replicate(Len(records), "x"))
       IN IF report.status = "escaped"
          THEN /\ raised' = "TypeError"
               /\ main_pc' = "aborted"
               /\ UNCHANGED quality
          ELSE /\ quality' = [x \in DOMAIN quality \cup {d} |->
                                 IF x = d THEN report ELSE quality[x]]
               /\ main_pc' = IF Cardinality(DOMAIN quality) + 1 = Len(DocTypes)
                             THEN "combine" ELSE "validate"
               /\ UNCHANGED raised
    /\ UNCHANGED <<records, embedding_results, table, table_before, seen>>

\* Lines 1461-1498: the cache statistics, the warning when a report is not valid
\* (every report has the key "valid") and the vectors zipped into the records.
Combine_records ==
    /\ main_pc = "combine"
    /\ main_pc' = "create_table"
    /\ UNCHANGED <<records, embedding_results, quality, table, table_before,
                   raised, seen>>

\* Lines 1502-1507: db.create_table("magic_cards", mode="overwrite").
CreateTable ==
    /\ main_pc = "create_table"
    /\ table' = [exists |-> TRUE, rows |-> 0, indexes |-> {}, build |-> "new"]
    /\ main_pc' = "add"
    /\ UNCHANGED <<records, embedding_results, quality, table_before, raised, seen>>

\* Line 1511: table.add(records).
AddRecords ==
    /\ main_pc = "add"
    /\ table' = [table EXCEPT !.rows = @ + Len(records)]
    /\ main_pc' = "index"
    /\ UNCHANGED <<records, embedding_results, quality, table_before, raised, seen>>

\* Lines 1517-1550: the four calls of table.create_index, in the order of
\* VectorColumns.
CreateIndex ==
    /\ main_pc = "index"
    /\ LET col == VectorColumns[Cardinality(table.indexes) + 1]
       IN table' = [table EXCEPT !.indexes = @ \cup {col}]
    /\ main_pc' = IF Cardinality(table.indexes) + 1 = Len(VectorColumns)
                  THEN "summary" ELSE "index"
    /\ UNCHANGED <<records, embedding_results, quality, table_before, raised, seen>>

\* A LanceDB call raises: main has no handler, the build ends there.
StoreCallRaises ==
    /\ main_pc \in {"create_table", "add", "index"}
    /\ raised' = "StoreError"
    /\ main_pc' = "aborted"
    /\ UNCHANGED <<records, embedding_results, quality, table, table_before, seen>>

\* Lines 1552-1580: the final summary reads report["valid"] and
\* report["consistency_score"] of the three reports.
FinalSummary ==
    /\ main_pc = "summary"
    /\ IF \A d \in DOMAIN quality : "consistency_score" \in DOMAIN quality[d]
       THEN main_pc' = "done" /\ UNCHANGED raised
       ELSE main_pc' = "aborted" /\ raised' = "KeyError"
    /\ UNCHANGED <<records, embedding_results, quality, table, table_before, seen>>

\* search_vectordb.connect_to_vectordb in another process: db.open_table at any
\* moment of the build.
connect_to_vectordb ==
    /\ table.exists
    /\ seen' = seen \cup {table}
    /\ UNCHANGED <<main_pc, records, embedding_results, quality, table,
                   table_before, raised>>

NextMain ==
    \/ ValidateQuality /\ UNCHANGED notMainVars
    \/ Combine_records /\ UNCHANGED notMainVars
    \/ CreateTable /\ UNCHANGED notMainVars
    \/ AddRecords /\ UNCHANGED notMainVars
    \/ CreateIndex /\ UNCHANGED notMainVars
    \/ StoreCallRaises /\ UNCHANGED notMainVars
    \/ FinalSummary /\ UNCHANGED notMainVars
    \/ connect_to_vectordb /\ UNCHANGED notMainVars

SpecMain == InitMain /\ [][NextMain]_vars

\* C12 (as stated): whatever the three reports say, an empty batch included,
\* validation does not end the build: nothing but a failing store call keeps main
\* from creating the table and the indexes and running to its last statement.
C12_ValidationNeverStopsBuild ==
    raised \in {"none", "StoreError"}

\* C13 (as stated): a process that opens magic_cards while a build runs finds
\* either the complete store of the previous build or the complete new one, all
\* rows added and every vector column indexed.
C13_NoPartialStoreSeen ==
    \A t \in seen : t = table_before \/ t = Complete(Len(records), "new")

\* C14 (as stated): when table.add or a create_index raises, the build aborts and
\* the store of the previous build is what it was when the build started.
C14_FailedBuildKeepsPreviousStore ==
    (raised = "StoreError" /\ table_before.exists /\ records # <<>>)
        => table = table_before

-----------------------------------------------------------------------------
(* search_vectordb.search_cards                                             *)
(*                                                                          *)
(* Rows.  The table is a list of runs: copies rows in a row that carry the  *)
(* same name at the same distance from the query (printings of one card),   *)
(* id being the place of the run in the table.  A distance is an integer,   *)
(* in hundredths.  The sort and the loop of search_cards treat the rows of  *)
(* a run alike: the first is kept or skipped and the others are skipped.    *)

MaxRows == 3                \* most runs in the table searched
MaxLimit == 3               \* largest limit asked for

Names == {"Bolt", "Shock"}
Distances == {10, 15, 20}

\* Line 40: search_limit = max(limit * 50, 1000000).
SearchLimit(lim) == IF lim * 50 > 1000000 THEN lim * 50 ELSE 1000000

RunLengths == {1, SearchLimit(0)}

\* A sort that leaves the rows as they came.
InsertAtEnd(sorted, row) == Append(sorted, row)

\* Line 44: list.sort(key=_distance), a stable sort: a row goes behind the rows of
\* the same distance that came before it.
RECURSIVE InsertByDistance(_, _)
InsertByDistance(sorted, row) ==
    IF sorted = <<>> THEN <<row>>
    ELSE IF Head(sorted)._distance <= row._distance
         THEN <<Head(sorted)>> \o InsertByDistance(Tail(sorted), row)
         ELSE <<row>> \o sorted

RECURSIVE SortByDistance(_)
SortByDistance(rows) ==
    IF rows = <<>> THEN <<>>
    ELSE InsertByDistance(SortByDistance(SubSeq(rows, 1, Len(rows) - 1)),
                          rows[Len(rows)])

\* Line 41: table.search(query).limit(search_limit).to_list(): the search_limit
\* rows nearest to the query, here handed over in the order the table holds them.
RECURSIVE TakeNearest(_, _)
TakeNearest(sorted, n) ==
    IF sorted = <<>> \/ n = 0 THEN <<>>
    ELSE LET taken == Min(Head(sorted).copies, n)
         IN <<[Head(sorted) EXCEPT !.copies = taken]>>
                \o TakeNearest(Tail(sorted), n - taken)

RECURSIVE InStoredOrder(_, _, _)
InStoredOrder(near, n, i) ==
    IF i > n THEN <<>>
    ELSE LET hit == {j \in DOMAIN near : near[j].id = i}
         IN (IF hit = {} THEN <<>> ELSE <<near[CHOOSE j \in hit : TRUE]>>)
                \o InStoredOrder(near, n, i + 1)

TableSearch(rows, search_limit) ==
    InStoredOrder(TakeNearest(SortByDistance(rows), search_limit), Len(rows), 1)

\* A loop that never looks at seen_names.
RECURSIVE UniqueFromKeepsAll(_, _, _, _, _)
UniqueFromKeepsAll(rows, seen_names, unique, lim, i) ==
    IF i > Len(rows) THEN unique
    ELSE LET u == Append(unique, [name |-> rows[i].name,
                                  _distance |-> rows[i]._distance,
                                  id |-> rows[i].id])
         IN IF Len(u) >= lim THEN u
            ELSE UniqueFromKeepsAll(rows, seen_names, u, lim, i + 1)

\* A loop without the break of lines 57-58.
RECURSIVE UniqueFromNoBreak(_, _, _, _, _)
UniqueFromNoBreak(rows, seen_names, unique, lim, i) ==
    IF i > Len(rows) THEN unique
    ELSE IF rows[i].name \notin seen_names
    THEN UniqueFromNoBreak(rows, seen_names \cup {rows[i].name},
                           Append(unique, [name |-> rows[i].name,
                                           _distance |-> rows[i]._distance,
                                           id |-> rows[i].id]),
                           lim, i + 1)
    ELSE UniqueFromNoBreak(rows, seen_names, unique, lim, i + 1)

\* Lines 47-58: the loop over the sorted rows; the break stands behind the append.
RECURSIVE UniqueFrom(_, _, _, _, _)
UniqueFrom(rows, seen_names, unique, lim, i) ==
    IF i > Len(rows) THEN unique
    ELSE IF rows[i].name \notin seen_names
    THEN LET u == Append(unique, [name |-> rows[i].name,
                                  _distance |-> rows[i]._distance,
                                  id |-> rows[i].id])
         IN IF Len(u) >= lim THEN u
            ELSE UniqueFrom(rows, seen_names \cup {rows[i].name}, u, lim, i + 1)
    ELSE UniqueFrom(rows, seen_names, unique, lim, i + 1)

\* Lines 47-58: the iterations of the loop, up to its break or the end of the rows.
RECURSIVE Iterations(_, _, _, _, _)
Iterations(rows, seen_names, found, lim, i) ==
    IF i > Len(rows) THEN Len(rows)
    ELSE IF rows[i].name \notin seen_names
    THEN IF found + 1 >= lim THEN i
         ELSE Iterations(rows, seen_names \cup {rows[i].name}, found + 1, lim, i + 1)
    ELSE Iterations(rows, seen_names, found, lim, i + 1)

\* search_cards, lines 20-60.
search_cards ==
    /\ search_pc = "called"
    /\ LET fetched == TableSearch(corpus, SearchLimit(limit))
       IN /\ raw_results' = fetched
          /\ unique_results' = UniqueFrom(SortByDistance(fetched), {}, <<>>, limit, 1)
          /\ examined' = Iterations(SortByDistance(fetched), {}, 0, limit, 1)
    /\ search_pc' = "returned"
    /\ UNCHANGED <<corpus, limit>>

InitSearch ==
    /\ files = <<>>
    /\ cache_stats = StatsInit
    /\ written = <<>>
    /\ last = [op |-> "init"]
    /\ GeneratorIdle
    /\ ValidatorIdle
    /\ MainIdle
    /\ CardIdle
    /\ SharedIdle
    /\ RowsIdle
    /\ search_pc = "called"
    /\ \E n \in 0..MaxRows :
          \E f \in [1..n -> Names \X Distances \X RunLengths] :
              corpus = [i \in 1..n |-> [name |-> f[i][1], _distance |-> f[i][2],
                                        copies |-> f[i][3], id |-> i]]
    /\ limit \in 0..MaxLimit
    /\ raw_results = <<>>
    /\ unique_results = <<>>
    /\ examined = 0

NextSearch ==
    search_cards /\ UNCHANGED notSearchVars

SpecSearch == InitSearch /\ [][NextSearch]_vars

Returned == search_pc = "returned"

\* C15: the list search_cards returns is in non-decreasing order of distance,
\* whatever the order in which the store handed the candidates over.
C15_ResultsAscending ==
    Returned =>
        \A i \in 1..(Len(unique_results) - 1) :
            unique_results[i]._distance <= unique_results[i + 1]._distance

C15_Witness_UnsortedCandidates ==
    /\ Returned
    /\ Len(unique_results) >= 2
    /\ unique_results[1]._distance < unique_results[2]._distance
    /\ \E i \in 1..(Len(raw_results) - 1) :
          raw_results[i]._distance > raw_results[i + 1]._distance

\* C16: no two results share a name, and the row returned for a name is the
\* candidate row of that name with the lowest distance, the earliest of them in
\* the candidates' order when several have that distance; the candidates
\* (Bolt, 0.1), (Bolt, 0.2), (Shock, 0.15) with limit 2 give Bolt(0.1), Shock(0.15).
C16_BestRowPerName ==
    Returned =>
        /\ \A i \in DOMAIN unique_results : \A j \in DOMAIN unique_results :
              unique_results[i].name = unique_results[j].name => i = j
        /\ \A i \in DOMAIN unique_results :
              LET r == unique_results[i]
              IN /\ \E q \in DOMAIN raw_results :
                       /\ raw_results[q].id = r.id
                       /\ raw_results[q].name = r.name
                       /\ raw_results[q]._distance = r._distance
                 /\ \A q \in DOMAIN raw_results :
                       raw_results[q].name = r.name =>
                           \/ r._distance < raw_results[q]._distance
                           \/ /\ r._distance = raw_results[q]._distance
                              /\ r.id <= raw_results[q].id
        /\ ([i \in DOMAIN raw_results |->
                <<raw_results[i].name, raw_results[i]._distance>>]
               = <<<<"Bolt", 10>>, <<"Bolt", 20>>, <<"Shock", 15>>>> /\ limit = 2)
              => [i \in DOMAIN unique_results |->
                     <<unique_results[i].name, unique_results[i]._distance>>]
                    = <<<<"Bolt", 10>>, <<"Shock", 15>>>>

C16_Witness_BoltBoltShock ==
    /\ Returned
    /\ limit = 2
    /\ [i \in DOMAIN raw_results |->
           <<raw_results[i].name, raw_results[i]._distance, raw_results[i].copies>>]
          = <<<<"Bolt", 10, 1>>, <<"Bolt", 20, 1>>, <<"Shock", 15, 1>>>>
    /\ Len(unique_results) = 2

\* C17 (as stated): search_cards returns fewer than limit results only when the
\* whole table holds fewer than limit distinct names.
C17_FewerOnlyWhenCorpusSmall ==
    (Returned /\ Len(unique_results) < limit) =>
        Cardinality({corpus[i].name : i \in DOMAIN corpus}) < limit

NamesAmong(rows, n) == {rows[i].name : i \in 1..n}

\* C28: for every candidate list and every limit of at least 1, search_cards
\* returns min(limit, distinct names among the candidates) results, and its loop
\* looks at no row behind the one that gave it the limit-th name.
C28_ExactlyMinOfLimitAndNames ==
    (Returned /\ limit >= 1) =>
        LET rows == SortByDistance(raw_results)
            names == NamesAmong(rows, Len(rows))
        IN /\ Len(unique_results) = Min(limit, Cardinality(names))
           /\ examined <= Len(rows)
           /\ IF Cardinality(names) >= limit
              THEN /\ Cardinality(NamesAmong(rows, examined)) = limit
                   /\ Cardinality(NamesAmong(rows, examined - 1)) = limit - 1
              ELSE examined = Len(rows)

\* Three candidates of two names and a limit of two: the second row gives the
\* second name and the third is not looked at.
C28_Witness_StopsBeforeLastRow ==
    /\ Returned
    /\ limit = 2
    /\ Len(raw_results) = 3
    /\ Cardinality(NamesAmong(raw_results, 3)) = 2
    /\ Len(unique_results) = 2
    /\ examined = 2

-----------------------------------------------------------------------------
(* EnhancedDocumentProcessor.create_primary_document                        *)
(*                                                                          *)
(* Text.  A string is the sequence of its words and punctuation marks in    *)
(* lower case (the matching of keywords ignores case).  A keyword is the    *)
(* sequence of its words.  A regular expression \bkeyword\b matches where   *)
(* the words of the keyword stand next to each other; the words drawn here  *)
(* have no keyword as a part of a longer word, so that "in" on strings is   *)
(* the same test.                                                           *)

MaxTextTokens == 3          \* most words and marks in a rule text
MaxKeywords == 2            \* most entries in a keyword list

\* self.ability_expansions, lines 122-137, in the order of the dict.
ability_expansions == <<
    [keyword |-> <<"flying">>,
     expansion |->
        <<"flying", "(", "this", "creature", "can't", "be", "blocked", "except", "by",
         "creatures", "with", "flying", "or", "reach", ")">>],
    [keyword |-> <<"trample">>,
     expansion |->
        <<"trample", "(", "this", "creature", "can", "deal", "excess", "combat",
         "damage", "to", "the", "player", "or", "planeswalker", "it's", "attacking",
         ")">>],
    [keyword |-> <<"vigilance">>,
     expansion |->
        <<"vigilance", "(", "attacking", "doesn't", "cause", "this", "creature", "to",
         "tap", ")">>],
    [keyword |-> <<"lifelink">>,
     expansion |->
        <<"lifelink", "(", "damage", "dealt", "by", "this", "creature", "also",
         "causes", "you", "to", "gain", "that", "much", "life", ")">>],
    [keyword |-> <<"deathtouch">>,
     expansion |->
        <<"deathtouch", "(", "any", "amount", "of", "damage", "this", "deals", "to",
         "a", "creature", "is", "enough", "to", "destroy", "it", ")">>],
    [keyword |-> <<"haste">>,
     expansion |->
        <<"haste", "(", "this", "creature", "can", "attack", "and", "tap", "as",
         "soon", "as", "it", "comes", "under", "your", "control", ")">>],
    [keyword |-> <<"reach">>,
     expansion |->
        <<"reach", "(", "this", "creature", "can", "block", "creatures", "with",
         "flying", ")">>],
    [keyword |-> <<"first", "strike">>,
     expansion |->
        <<"first", "strike", "(", "this", "creature", "deals", "combat", "damage",
         "before", "creatures", "without", "first", "strike", ")">>],
    [keyword |-> <<"double", "strike">>,
     expansion |->
        <<"double", "strike", "(", "this", "creature", "deals", "first", "strike",
         "and", "regular", "combat", "damage", ")">>],
    [keyword |-> <<"hexproof">>,
     expansion |->
        <<"hexproof", "(", "this", "creature", "can't", "be", "the", "target", "of",
         "spells", "or", "abilities", "your", "opponents", "control", ")">>],
    [keyword |-> <<"indestructible">>,
     expansion |->
        <<"indestructible", "(", "effects", "that", "say", "\"", "destroy", "\"",
         "don't", "destroy", "this", "creature", ")">>],
    [keyword |-> <<"menace">>,
     expansion |->
        <<"menace", "(", "this", "creature", "can't", "be", "blocked", "except", "by",
         "two", "or", "more", "creatures", ")">>],
    [keyword |-> <<"defender">>,
     expansion |->
        <<"defender", "(", "this", "creature", "can't", "attack", ")">>],
    [keyword |-> <<"flash">>,
     expansion |->
        <<"flash", "(", "you", "may", "cast", "this", "spell", "any", "time", "you",
         "could", "cast", "an", "instant", ")">>]
>>

TextTokens == {"flying", "reach", "first", "strike", ",", "draw"}
KeywordChoices == {<<"flying">>, <<"reach">>, <<"first", "strike">>}

MatchesAt(text, i, pattern) ==
    /\ i + Len(pattern) - 1 <= Len(text)
    /\ \A j \in 1..Len(pattern) : text[i + j - 1] = pattern[j]

\* pattern in text
Contains(text, pattern) == \E i \in 1..Len(text) : MatchesAt(text, i, pattern)

\* re.sub(pattern, expansion, text): every match in the text as it was is
\* replaced, what is put in is not looked at again.  No keyword overlaps itself,
\* so every place where the pattern matches is a match of the scan from the left.
\* Pieces joins what the places lo..hi of the text turn into.
RECURSIVE Pieces(_, _, _, _, _)
Pieces(pattern, repl, text, lo, hi) ==
    IF lo > hi THEN <<>>
    ELSE IF lo = hi
    THEN IF MatchesAt(text, lo, pattern) THEN repl
         ELSE IF \E j \in 1..(lo - 1) :
                    MatchesAt(text, j, pattern) /\ j + Len(pattern) > lo
              THEN <<>>
              ELSE <<text[lo]>>
    ELSE LET mid == (lo + hi) \div 2
         IN Pieces(pattern, repl, text, lo, mid)
                \o Pieces(pattern, repl, text, mid + 1, hi)

ReSub(pattern, repl, text, i) == Pieces(pattern, repl, text, i, Len(text))

\* _expand_ability_keywords, lines 365-379: one re.sub per entry of the table, each
\* on the text the entries before it have left.
RECURSIVE ExpandFrom(_, _)
ExpandFrom(expanded_text, n) ==
    IF n > Len(ability_expansions) THEN expanded_text
    ELSE IF Contains(expanded_text, ability_expansions[n].keyword)
    THEN ExpandFrom(ReSub(ability_expansions[n].keyword,
                          ability_expansions[n].expansion, expanded_text, 1),
                    n + 1)
    ELSE ExpandFrom(expanded_text, n + 1)

\* Lines 201-207, 216-228 and 231-235: the reminder text of a keyword of the table,
\* the keyword itself otherwise; the entries joined by blanks.
RECURSIVE ExpandKeywords(_, _)
ExpandKeywords(keywords, n) ==
    IF n > Len(keywords) THEN <<>>
    ELSE LET hits == {m \in DOMAIN ability_expansions :
                         ability_expansions[m].keyword = keywords[n]}
         IN (IF hits = {} THEN keywords[n]
             ELSE ability_expansions[CHOOSE m \in hits : TRUE].expansion)
                \o ExpandKeywords(keywords, n + 1)

\* Lines 193-237 of create_primary_document: what the rule text and the keyword
\* list add to parts.  oracle_lower.split() is the text without "," and ".".
Words(text) == SelectSeq(text, LAMBDA t : t \notin {",", "."})

AbilityParts(oracle_text, keywords) ==
    IF oracle_text # <<>>
    THEN IF /\ Words(oracle_text) # <<>>
            /\ \A i \in DOMAIN Words(oracle_text) :
                  <<Words(oracle_text)[i]>> \in Range(keywords)
         THEN ExpandKeywords(keywords, 1)
         ELSE ExpandFrom(oracle_text, 1)
                  \o ExpandKeywords(
                         SelectSeq(keywords, LAMBDA kw : ~Contains(oracle_text, kw)),
                         1)
    ELSE ExpandKeywords(keywords, 1)

create_primary_document ==
    /\ card_pc = "called"
    /\ primary_doc' = AbilityParts(card.text, card.keywords)
    /\ card_pc' = "returned"
    /\ UNCHANGED <<card, context_parts, context_tags, complexity_score, processor,
                   calls>>

OthersIdle ==
    /\ files = <<>>
    /\ cache_stats = StatsInit
    /\ written = <<>>
    /\ last = [op |-> "init"]
    /\ GeneratorIdle
    /\ ValidatorIdle
    /\ MainIdle
    /\ SearchIdle
    /\ SharedIdle
    /\ RowsIdle

InitPrimary ==
    /\ OthersIdle
    /\ card_pc = "called"
    /\ \E text \in SeqsUpTo(TextTokens, MaxTextTokens),
          keywords \in SeqsUpTo(KeywordChoices, MaxKeywords) :
          card = [name |-> "card", text |-> text, keywords |-> keywords]
    /\ primary_doc = <<>>
    /\ context_parts = <<>>
    /\ context_tags = <<>>
    /\ processor = <<>>
    /\ calls = <<>>
    /\ complexity_score = 0

NextPrimary ==
    create_primary_document /\ UNCHANGED notCardVars

SpecPrimary == InitPrimary /\ [][NextPrimary]_vars

\* The keywords of the table that stand in a text, and a text that is made of
\* keywords of the table and commas only, each keyword once.
Occurrences(text, pattern, i) ==
    Cardinality({j \in i..Len(text) : MatchesAt(text, j, pattern)})

RECURSIVE WithoutKeywords(_, _)
WithoutKeywords(text, n) ==
    IF n > Len(ability_expansions) THEN text
    ELSE WithoutKeywords(ReSub(ability_expansions[n].keyword, <<>>, text, 1), n + 1)

OnlyKeywords(text) ==
    /\ Words(text) # <<>>
    /\ Words(WithoutKeywords(text, 1)) = <<>>
    /\ \A n \in DOMAIN ability_expansions :
          Occurrences(text, ability_expansions[n].keyword, 1) <= 1

\* C18 (as stated): for a rule text made of ability keywords only, the keyword
\* list holding them or not, the primary view holds the whole reminder text of
\* each of these keywords exactly once, none expanded again or added twice.
C18_ReminderTextExactlyOnce ==
    (card_pc = "returned" /\ OnlyKeywords(card.text)) =>
        \A n \in DOMAIN ability_expansions :
            Contains(card.text, ability_expansions[n].keyword) =>
                Occurrences(primary_doc, ability_expansions[n].expansion, 1) = 1

-----------------------------------------------------------------------------
(* EnhancedDocumentProcessor.create_context_document                        *)
(*                                                                          *)
(* A type line is the sequence of its words in lower case.  context_parts   *)
(* names, in order, the type-specific handlers whose tags were appended to  *)
(* parts; the tags themselves are left out.                                 *)

MaxTypeWords == 3           \* most words in a type line

TypeWords == {"creature", "instant", "sorcery", "planeswalker", "artifact",
              "legendary"}

\* Lines 139-142.
creature_types == <<<<"creature">>, <<"artifact", "creature">>,
                    <<"enchantment", "creature">>>>
spell_types == <<<<"instant">>, <<"sorcery">>>>
planeswalker_types == <<<<"planeswalker">>>>

\* Lines 381-394: any(t in type_line for t in ...).
is_creature(c) == \E n \in DOMAIN creature_types : Contains(c.type, creature_types[n])
is_spell(c) == \E n \in DOMAIN spell_types : Contains(c.type, spell_types[n])
is_planeswalker(c) ==
    \E n \in DOMAIN planeswalker_types : Contains(c.type, planeswalker_types[n])

\* Three separate ifs: every handler whose test holds adds its tags.
TypeContextOfEveryMatch(c) ==
    (IF is_creature(c) THEN <<"creature">> ELSE <<>>)
        \o (IF is_spell(c) THEN <<"spell">> ELSE <<>>)
        \o (IF is_planeswalker(c) THEN <<"planeswalker">> ELSE <<>>)

\* Lines 319-325: if / elif / elif.
TypeContext(c) ==
    IF is_creature(c) THEN <<"creature">>
    ELSE IF is_spell(c) THEN <<"spell">>
    ELSE IF is_planeswalker(c) THEN <<"planeswalker">>
    ELSE <<>>

\* card.get("manaValue"): a number, or a value that is no number (None, a string).
MaxMana == 4                \* mana values 0..MaxMana are drawn one by one
Huge == 1000000             \* a mana value, length or count beyond every cap

ManaValues == {[number |-> FALSE, value |-> 0]}
                  \cup {[number |-> TRUE, value |-> v] : v \in (0..MaxMana) \cup {Huge}}

\* "phrase" in oracle_text, the phrase given by its words.
InText(c, phrase) == Contains(c.text, phrase)

When(cond, tags) == IF cond THEN tags ELSE <<>>

\* A bucket rule of separate ifs in place of the elif chain of lines 630-642.
ManaBucketOfEveryBound(mana_value) ==
    When(mana_value <= 1, <<"cheap spell", "early game spell">>)
        \o When(mana_value <= 3, <<"efficient spell", "mid-game spell">>)
        \o When(mana_value <= 5, <<"expensive spell", "late-game spell">>)
        \o When(mana_value > 5, <<"high-cost spell", "finisher spell">>)

\* Lines 630-642: the bucket of a numeric mana value.
ManaBucket(mana_value) ==
    IF mana_value <= 1 THEN <<"cheap spell", "early game spell">>
    ELSE IF mana_value <= 3 THEN <<"efficient spell", "mid-game spell">>
    ELSE IF mana_value <= 5 THEN <<"expensive spell", "late-game spell">>
    ELSE <<"high-cost spell", "finisher spell">>

\* Lines 663-675: spell_categories, in the order of the dict.
spell_categories == <<
    [category |-> "removal spell",
     keywords |-> <<<<"destroy">>, <<"exile">>, <<"damage">>, <<"sacrifice">>>>],
    [category |-> "card advantage spell",
     keywords |-> <<<<"draw">>, <<"search">>, <<"return">>, <<"create">>>>],
    [category |-> "disruption spell",
     keywords |-> <<<<"counter">>, <<"discard">>, <<"mill">>>>],
    [category |-> "utility spell",
     keywords |-> <<<<"tap">>, <<"untap">>, <<"prevent">>, <<"gain">>>>],
    [category |-> "ramp spell",
     keywords |-> <<<<"add", "mana">>, <<"search", "for", "a", "land">>,
                    <<"basic", "land">>>>]
>>

RECURSIVE SpellCategories(_, _)
SpellCategories(c, n) ==
    IF n > Len(spell_categories) THEN <<>>
    ELSE When(\E m \in DOMAIN spell_categories[n].keywords :
                  InText(c, spell_categories[n].keywords[m]),
              <<spell_categories[n].category>>)
             \o SpellCategories(c, n + 1)

\* _add_spell_context, lines 542-677.
add_spell_context(c) ==
    When(Contains(c.type, <<"instant">>),
         <<"can be cast at instant speed", "reactive spell", "stack interaction">>
             \o When(InText(c, <<"counter">>), <<"counterspell", "control magic">>)
             \o When(InText(c, <<"damage">>), <<"direct damage", "burn spell">>)
             \o When(InText(c, <<"prevent">>),
                     <<"damage prevention", "protection spell">>)
             \o When(InText(c, <<"draw">>), <<"instant card draw">>)
             \o When(InText(c, <<"return">>) /\ InText(c, <<"hand">>),
                     <<"bounce spell">>)
             \o When(InText(c, <<"tap">>) \/ InText(c, <<"untap">>), <<"tempo spell">>)
             \o When(\E w \in {"+", "power", "toughness", "combat", "block"} :
                         InText(c, <<w>>),
                     <<"combat trick">>))
    \o When(Contains(c.type, <<"sorcery">>),
            <<"sorcery speed spell", "proactive spell", "main phase only">>
                \o When(InText(c, <<"destroy">>),
                        <<"removal spell">>
                            \o When(InText(c, <<"all">>) \/ InText(c, <<"each">>),
                                    <<"mass removal", "board wipe">>))
                \o When(InText(c, <<"draw">>),
                        <<"card draw">>
                            \o When(InText(c, <<"cards">>), <<"card advantage">>))
                \o When(InText(c, <<"search">>),
                        <<"tutor effect">>
                            \o When(InText(c, <<"library">>), <<"library search">>))
                \o When(InText(c, <<"return">>) /\ InText(c, <<"graveyard">>),
                        <<"recursion spell">>)
                \o When(InText(c, <<"create">>) /\ InText(c, <<"token">>),
                        <<"token generation">>)
                \o When(InText(c, <<"gain", "control">>), <<"theft effect">>)
                \o When(InText(c, <<"extra", "turn">>), <<"time walk effect">>))
    \o (IF InText(c, <<"target">>)
        THEN <<"requires target">>
                 \o When(InText(c, <<"target", "player">>), <<"targets player">>)
                 \o When(InText(c, <<"target", "creature">>), <<"targets creature">>)
                 \o When(InText(c, <<"target", "artifact">>)
                             \/ InText(c, <<"target", "enchantment">>),
                         <<"targets permanent">>)
                 \o When(InText(c, <<"target", "spell">>), <<"targets spell">>)
                 \o When(InText(c, <<"up", "to">>) \/ InText(c, <<"any", "number">>),
                         <<"flexible targeting">>)
        ELSE <<"no targeting required">>)
    \o When(c.manaValue.number, ManaBucket(c.manaValue.value))
    \o When(InText(c, <<"choose", "one">>) \/ InText(c, <<"choose", "two">>)
                \/ InText(c, <<"choose", "three">>),
            <<"modal spell", "versatile effect">>)
    \o When(Contains(c.manaCost, <<"{x}">>), <<"X spell", "scalable effect">>)
    \o When(InText(c, <<"if">>), <<"conditional effect">>)
    \o SpellCategories(c, 1)

create_context_document ==
    /\ card_pc = "called"
    /\ context_parts' = TypeContext(card)
    /\ context_tags' = When(TypeContext(card) = <<"spell">>, add_spell_context(card))
    /\ card_pc' = "returned"
    /\ UNCHANGED <<card, primary_doc, complexity_score, processor, calls>>

InitContext ==
    /\ OthersIdle
    /\ card_pc = "called"
    /\ \E type_line \in SeqsUpTo(TypeWords, MaxTypeWords) :
          card = [name |-> "card", type |-> type_line, text |-> <<>>,
                  manaValue |-> [number |-> FALSE, value |-> 0], manaCost |-> <<>>]
    /\ primary_doc = <<>>
    /\ context_parts = <<>>
    /\ context_tags = <<>>
    /\ processor = <<>>
    /\ calls = <<>>
    /\ complexity_score = 0

NextContext ==
    create_context_document /\ UNCHANGED notCardVars

SpecContext == InitContext /\ [][NextContext]_vars

HasTypeWord(w) == \E i \in DOMAIN card.type : card.type[i] = w

\* C19: the context view takes the tags of exactly one type-specific handler, or of
\* none: the creature handler when the type line names a creature, else the spell
\* handler when it names an instant or a sorcery, else the planeswalker handler
\* when it names a planeswalker.
C19_OneHandlerByPriority ==
    card_pc = "returned" =>
        context_parts =
            (CASE HasTypeWord("creature") -> <<"creature">>
               [] ~HasTypeWord("creature")
                    /\ (HasTypeWord("instant") \/ HasTypeWord("sorcery")) -> <<"spell">>
               [] ~HasTypeWord("creature") /\ ~HasTypeWord("instant")
                    /\ ~HasTypeWord("sorcery") /\ HasTypeWord("planeswalker")
                      -> <<"planeswalker">>
               [] OTHER -> <<>>)

C19_Witness_SeveralCategories ==
    /\ card_pc = "returned"
    /\ HasTypeWord("creature")
    /\ HasTypeWord("planeswalker")
    /\ HasTypeWord("instant")
    /\ context_parts = <<"creature">>

MaxSpellWords == 3          \* longest oracle text of a spell, in words

SpellWords == {"damage", "target", "creature", "draw", "if"}
SpellTypeLines == {<<"instant">>, <<"sorcery">>, <<"instant", "creature">>}

InitSpell ==
    /\ OthersIdle
    /\ card_pc = "called"
    /\ \E type_line \in SpellTypeLines, text \in SeqsUpTo(SpellWords, MaxSpellWords),
          mana_value \in ManaValues, mana_cost \in {<<>>, <<"{x}">>} :
          card = [name |-> "card", type |-> type_line, text |-> text,
                  manaValue |-> mana_value, manaCost |-> mana_cost]
    /\ primary_doc = <<>>
    /\ context_parts = <<>>
    /\ context_tags = <<>>
    /\ processor = <<>>
    /\ calls = <<>>
    /\ complexity_score = 0

SpecSpell == InitSpell /\ [][NextContext]_vars

BurnSpellCase ==
    /\ card_pc = "returned"
    /\ card.type = <<"instant">>
    /\ InText(card, <<"damage">>)
    /\ InText(card, <<"target">>)
    /\ card.manaValue.number
    /\ card.manaValue.value > 1
    /\ card.manaValue.value <= 3

\* C21: an instant whose text holds "damage" and "target" and whose mana value is
\* above 1 and at most 3 gets the tags "direct damage", "burn spell", "requires
\* target", "efficient spell" and "mid-game spell", and neither "no targeting
\* required" nor a tag of another mana bucket.
C21_BurnSpellTags ==
    BurnSpellCase =>
        /\ {"direct damage", "burn spell", "requires target", "efficient spell",
            "mid-game spell"} \subseteq Range(context_tags)
        /\ Range(context_tags)
               \cap {"no targeting required", "cheap spell", "early game spell",
                     "expensive spell", "late-game spell", "high-cost spell",
                     "finisher spell"} = {}

C21_Witness_TwoManaBurn ==
    /\ BurnSpellCase
    /\ card.manaValue.value = 2
    /\ card.text = <<"damage", "target", "creature">>
    /\ "targets creature" \in Range(context_tags)

-----------------------------------------------------------------------------
(* calculate_complexity_score                                               *)
(*                                                                          *)
(* The card is given by what the function reads of it: the mana value (a    *)
(* number, or no number), len(text), how many of the seven complex_keywords *)
(* stand in the text, len(keywords) and len(type.split()).  The score is    *)
(* kept in thousandths: x / 10.0 is 100 x and x / 500.0 is 2 x.             *)

TextLengths == {0, 50, 100, 101, Huge}
complex_keywords == <<"when", "if", "choose", "may", "target", "search", "return">>
KeywordCounts == {0, 1, 2, 3, Huge}
TypeCounts == {0, 1, 2, Huge}

\* A min(...) that lets the contribution through as it is.
Uncapped(x, cap) == x

\* min(x, cap)
Capped(x, cap) == IF x < cap THEN x ELSE cap

\* calculate_complexity_score, lines 1216-1250.
ComplexityScore(c) ==
    LET mana == IF c.manaValue.number THEN Capped(100 * c.manaValue.value, 300)
                ELSE 0
        text == IF c.text_length > 0
                THEN Capped(2 * c.text_length, 200) + Capped(100 * c.keyword_count, 200)
                ELSE 0
        abilities == IF c.keywords > 0 THEN Capped(100 * c.keywords, 200) ELSE 0
        types == IF c.type_length > 0 THEN Capped(100 * c.type_count, 100) ELSE 0
    IN Capped(mana + text + abilities + types, 1000)

calculate_complexity_score ==
    /\ card_pc = "called"
    /\ complexity_score' = ComplexityScore(card)
    /\ card_pc' = "returned"
    /\ UNCHANGED <<card, primary_doc, context_parts, context_tags, processor, calls>>

\* The cards: a text holds at most as many complex words as it has room for, a
\* type line at most as many words as characters.
InitComplexity ==
    /\ OthersIdle
    /\ card_pc = "called"
    /\ \E mv \in ManaValues, len \in TextLengths, kc \in 0..Len(complex_keywords),
          nk \in KeywordCounts, tc \in TypeCounts, tl \in TypeCounts :
          /\ 2 * kc <= len
          /\ tc <= tl
          /\ card = [name |-> "card", manaValue |-> mv, text_length |-> len,
                     keyword_count |-> kc, keywords |-> nk, type_length |-> tl,
                     type_count |-> tc]
    /\ primary_doc = <<>>
    /\ context_parts = <<>>
    /\ context_tags = <<>>
    /\ processor = <<>>
    /\ calls = <<>>
    /\ complexity_score = 0

NextComplexity ==
    calculate_complexity_score /\ UNCHANGED notCardVars

SpecComplexity == InitComplexity /\ [][NextComplexity]_vars

-----------------------------------------------------------------------------
(* Records with missing fields                                              *)
(*                                                                          *)
(* A record is given by the state of each field other than the name: the    *)
(* key is absent, the key holds None (a NULL column of the source table),   *)
(* or it holds a value of the field's type.  A function is given by the     *)
(* reads it makes of the record, in the order of the code.  A read is a     *)
(* "test" when the value of card.get is only tested (its truth, is not      *)
(* None, isinstance, or) before anything is done with it, and a "method"    *)
(* when a method is called on what card.get returned: card.get(f, "")       *)
(* returns None for a key that holds None, and None has no lower().         *)

MaxMissing == 2             \* most fields of a record that are absent or None

Fields == {"type", "text", "manaCost", "manaValue", "keywords", "colors", "power",
           "toughness", "loyalty", "rarity", "setCode"}

Read(field, use) == [field |-> field, use |-> use]

\* create_primary_document, lines 162, 168, 173, 179, 183, 184, 240.
primary_reads == <<
    Read("manaCost", "test"), Read("type", "test"), Read("power", "test"),
    Read("toughness", "test"), Read("loyalty", "test"), Read("text", "test"),
    Read("keywords", "test"), Read("colors", "test")>>

\* create_keyword_document, lines 260, 265, 270, 275, 280, 284, 288, 295, 300.
keyword_reads == <<
    Read("manaCost", "test"), Read("type", "test"), Read("text", "test"),
    Read("keywords", "test"), Read("power", "test"), Read("toughness", "test"),
    Read("loyalty", "test"), Read("colors", "test"), Read("rarity", "test"),
    Read("setCode", "test")>>

\* create_context_document: line 315, _is_creature at line 383, the reads of the
\* three handlers (lines 400-403, 511, 523; 546-548, 654; 682-687), line 328 and
\* _generate_strategic_context (lines 832, 862).
context_reads == <<
    Read("type", "test"), Read("type", "method"),
    Read("power", "test"), Read("toughness", "test"), Read("text", "test"),
    Read("keywords", "test"), Read("manaValue", "test"), Read("type", "method"),
    Read("manaCost", "test"), Read("loyalty", "test"),
    Read("text", "test"), Read("keywords", "test")>>

\* calculate_complexity_score, lines 1221, 1226, 1240, 1245.
complexity_reads == <<
    Read("manaValue", "test"), Read("text", "test"), Read("keywords", "test"),
    Read("type", "test")>>

\* calculate_popularity_score, lines 1258 and 1263.
popularity_reads == <<Read("rarity", "method"), Read("type", "method")>>

\* generate_search_tags, lines 1279, 1288, 1296, 1301, 1310, 1315.
tag_reads == <<
    Read("colors", "test"), Read("type", "test"), Read("rarity", "test"),
    Read("manaValue", "test"), Read("keywords", "test"), Read("setCode", "test")>>

\* None.lower() raises AttributeError.
MethodOnNone(c, read) == read.use = "method" /\ c[read.field] = "null"

Raises(c, reads) == \E n \in DOMAIN reads : MethodOnNone(c, reads[n])

Call(fn, reads) ==
    /\ card_pc = "called"
    /\ calls' = Append(calls, [fn |-> fn, raised |-> Raises(card, reads)])
    /\ card_pc' = IF Raises(card, reads) THEN "raised" ELSE "returned"
    /\ UNCHANGED <<card, primary_doc, context_parts, context_tags, complexity_score,
                   processor>>

\* Lines 144-150: the three views, in the order of the dict display.
create_enhanced_document ==
    Call("create_enhanced_document", primary_reads \o keyword_reads \o context_reads)

complexity_score_of_record == Call("calculate_complexity_score", complexity_reads)

calculate_popularity_score == Call("calculate_popularity_score", popularity_reads)

generate_search_tags == Call("generate_search_tags", tag_reads)

InitMissing ==
    /\ OthersIdle
    /\ card_pc = "called"
    /\ \E missing \in {S \in SUBSET Fields : Cardinality(S) <= MaxMissing} :
          \E how \in [missing -> {"absent", "null"}] :
              card = [f \in Fields |-> IF f \in missing THEN how[f] ELSE "value"]
    /\ primary_doc = <<>>
    /\ context_parts = <<>>
    /\ context_tags = <<>>
    /\ complexity_score = 0
    /\ processor = <<>>
    /\ calls = <<>>

NextMissing ==
    \/ create_enhanced_document /\ UNCHANGED notCardVars
    \/ complexity_score_of_record /\ UNCHANGED notCardVars
    \/ calculate_popularity_score /\ UNCHANGED notCardVars
    \/ generate_search_tags /\ UNCHANGED notCardVars

SpecMissing == InitMissing /\ [][NextMissing]_vars

\* C22: for every record in which a field other than the name is absent or holds
\* null, create_enhanced_document, calculate_complexity_score,
\* calculate_popularity_score and generate_search_tags return without raising.
C22_MissingFieldsNeverRaise ==
    \A n \in DOMAIN calls : ~calls[n].raised

-----------------------------------------------------------------------------
(* EnhancedDocumentProcessor instances and repeated calls                   *)
(*                                                                          *)
(* An instance is the tables its constructor assigns, as far as the views   *)
(* read them through self: color_names and the three lists of type names.   *)
(* ability_expansions, which no method assigns either, is read through      *)
(* AbilityParts as the table of the constructor.  The views are sequences   *)
(* of the parts that " ".join puts together.                                *)

MaxProcessors == 2          \* instances constructed
MaxCalls == 3               \* calls of create_enhanced_document

\* __init__, lines 111-142.
Tables ==
    [color_names |-> [W |-> "white", U |-> "blue", B |-> "black", R |-> "red",
                      G |-> "green"],
     creature_types |-> creature_types,
     spell_types |-> spell_types,
     planeswalker_types |-> planeswalker_types]

Cards == {
    [name |-> "bolt", type |-> <<"instant">>, text |-> <<"damage", "target">>,
     keywords |-> <<>>, colors |-> <<"R">>,
     manaValue |-> [number |-> TRUE, value |-> 1], manaCost |-> <<"{r}">>],
    [name |-> "drake", type |-> <<"creature">>, text |-> <<"flying">>,
     keywords |-> <<<<"flying">>>>, colors |-> <<"U", "R">>,
     manaValue |-> [number |-> TRUE, value |-> 3], manaCost |-> <<"{u}", "{r}">>],
    [name |-> "relic", type |-> <<"artifact">>, text |-> <<>>,
     keywords |-> <<>>, colors |-> <<>>,
     manaValue |-> [number |-> FALSE, value |-> 0], manaCost |-> <<>>]}

\* [self.color_names.get(c, c) for c in colors]
ColorWords(self, colors) ==
    [n \in DOMAIN colors |->
        IF colors[n] \in DOMAIN self.color_names THEN self.color_names[colors[n]]
        ELSE colors[n]]

RECURSIVE JoinedByAnd(_, _)
JoinedByAnd(words, n) ==
    IF n > Len(words) THEN <<>>
    ELSE IF n = Len(words) THEN <<words[n]>>
    ELSE <<words[n], "and">> \o JoinedByAnd(words, n + 1)

\* create_primary_document, lines 152-248, without the mana cost in words.
PrimaryDocument(self, c) ==
    <<c.name>>
        \o When(c.type # <<>>, <<"is", "a">> \o c.type)
        \o AbilityParts(c.text, c.keywords)
        \o When(c.colors # <<>>, <<"is">> \o JoinedByAnd(ColorWords(self, c.colors), 1))

RECURSIVE Flattened(_, _)
Flattened(seqs, n) ==
    IF n > Len(seqs) THEN <<>> ELSE seqs[n] \o Flattened(seqs, n + 1)

\* create_keyword_document, lines 250-304, for a card without power, toughness,
\* loyalty, rarity and set code.
KeywordDocument(self, c) ==
    <<c.name>> \o c.manaCost \o c.type \o c.text \o Flattened(c.keywords, 1)
        \o c.colors \o ColorWords(self, c.colors)

NamesOneOf(types, c) == \E n \in DOMAIN types : Contains(c.type, types[n])

\* create_context_document, lines 306-337; of the creature and the planeswalker
\* handler only that they were taken, and the strategic tags left out.
ContextDocument(self, c) ==
    <<c.name>> \o c.type
        \o (IF NamesOneOf(self.creature_types, c) THEN <<"creature">>
            ELSE IF NamesOneOf(self.spell_types, c) THEN add_spell_context(c)
            ELSE IF NamesOneOf(self.planeswalker_types, c) THEN <<"planeswalker">>
            ELSE <<>>)
        \o c.text

\* Lines 146-150.
EnhancedDocument(self, c) ==
    [primary_doc |-> PrimaryDocument(self, c),
     keyword_doc |-> KeywordDocument(self, c),
     context_doc |-> ContextDocument(self, c)]

\* A call that keeps what it has seen: the colours of the card are dropped from
\* the instance's color_names.
AfterCallRemembering(self, c) ==
    [self EXCEPT !.color_names =
        [w \in DOMAIN self.color_names \ Range(c.colors) |-> self.color_names[w]]]

\* The instance after a call: no method of the class assigns an attribute or
\* changes a table.
AfterCall(self, c) == self

\* doc_processor = EnhancedDocumentProcessor(), line 1339 of main.
NewProcessor ==
    /\ Len(processor) < MaxProcessors
    /\ processor' = Append(processor, Tables)
    /\ UNCHANGED <<card_pc, card, primary_doc, context_parts, context_tags,
                   complexity_score, calls>>

EnhancedDocumentOf(n, c) ==
    /\ Len(calls) < MaxCalls
    /\ calls' = Append(calls, [instance |-> n, card |-> c,
                               docs |-> EnhancedDocument(processor[n], c)])
    /\ processor' = [processor EXCEPT ![n] = AfterCall(processor[n], c)]
    /\ card' = c
    /\ card_pc' = "returned"
    /\ UNCHANGED <<primary_doc, context_parts, context_tags, complexity_score>>

InitProcessors ==
    /\ OthersIdle
    /\ CardIdle

NextProcessors ==
    \/ NewProcessor /\ UNCHANGED notCardVars
    \/ \E n \in DOMAIN processor, c \in Cards :
           EnhancedDocumentOf(n, c) /\ UNCHANGED notCardVars

SpecProcessors == InitProcessors /\ [][NextProcessors]_vars

-----------------------------------------------------------------------------
(* main: the row loop and the combining of vectors with records             *)
(*                                                                          *)
(* A source row is given by its id and by what the skip test of line 1382   *)
(* reads: whether it has a name and whether its text is a string or None.   *)
(* The document of a view for a row is the pair of the view and the row's   *)
(* id; the model's vector for a document is tagged with that document.      *)
(* row_loop holds main's lists and its place: in the row loop at row i, in  *)
(* generate_embeddings_sequential at one view, combining, or done.          *)

MaxSourceRows == 3          \* rows of the cards table

RowKinds == {[name |-> TRUE, text |-> TRUE], [name |-> FALSE, text |-> TRUE],
             [name |-> TRUE, text |-> FALSE]}

DocumentOf(view, row) == <<view, row.id>>

\* What the model computes for a document.
VectorOf(doc) == [kind |-> "ndarray", of |-> doc, dim |-> 384]

\* np.zeros(fallback_dim), line 1157.
FallbackVector == [kind |-> "ndarray", of |-> <<>>, dim |-> fallback_dim]

\* to_list, lines 1486-1490: vec.tolist().
to_list(vec) == [vec EXCEPT !.kind = "list"]

\* A skipped row that still leaves its record behind.
SkippedKeepsRecord(l, row) ==
    [l EXCEPT !.i = @ + 1, !.records = Append(@, [row |-> row.id])]

\* Line 1383: continue.
Skipped(l, row) == [l EXCEPT !.i = @ + 1]

\* Lines 1386-1390 and 1402-1427: the three documents and the record of the row.
Kept(l, row) ==
    [l EXCEPT !.i = @ + 1,
              !.primary_docs = Append(@, DocumentOf("primary", row)),
              !.keyword_docs = Append(@, DocumentOf("keyword", row)),
              !.context_docs = Append(@, DocumentOf("context", row)),
              !.records = Append(@, [row |-> row.id])]

\* Lines 1362-1427: one pass of the loop over rows.
RowPass ==
    /\ row_loop.pc = "rows"
    /\ row_loop.i <= Len(source_rows)
    /\ LET row == source_rows[row_loop.i]
       IN row_loop' = IF ~row.name \/ ~row.text THEN Skipped(row_loop, row)
                      ELSE Kept(row_loop, row)
    /\ UNCHANGED <<source_rows, view_vectors>>

\* Lines 1429-1443: the loop is over; document_sets is made of the three lists.
RowsDone ==
    /\ row_loop.pc = "rows"
    /\ row_loop.i > Len(source_rows)
    /\ row_loop' = [row_loop EXCEPT !.pc = "embed"]
    /\ UNCHANGED <<source_rows, view_vectors>>

DocumentsOfView(view) ==
    CASE view = "primary" -> row_loop.primary_docs
      [] view = "keyword" -> row_loop.keyword_docs
      [] view = "context" -> row_loop.context_docs

NextView == DocTypes[Cardinality(DOMAIN view_vectors) + 1]

ViewDone(view, vectors, fell_back) ==
    /\ view_vectors' = [d \in DOMAIN view_vectors \cup {view} |->
                           IF d = view THEN vectors ELSE view_vectors[d]]
    /\ row_loop' = [row_loop EXCEPT
                       !.pc = IF Cardinality(DOMAIN view_vectors) + 1 = Len(DocTypes)
                              THEN "combine" ELSE "embed",
                       !.fallback = IF fell_back THEN @ \cup {view} ELSE @]
    /\ UNCHANGED source_rows

\* generate_embeddings_sequential, lines 1145-1151: encode_with_cache returned, one
\* vector per document and in the order of the documents.
ViewEncoded ==
    /\ row_loop.pc = "embed"
    /\ LET docs == DocumentsOfView(NextView)
       IN ViewDone(NextView, [n \in DOMAIN docs |-> VectorOf(docs[n])], FALSE)

\* Lines 1152-1158: encode_with_cache raised, a zero vector for every document.
ViewFellBack ==
    /\ row_loop.pc = "embed"
    /\ LET docs == DocumentsOfView(NextView)
       IN ViewDone(NextView, [n \in DOMAIN docs |-> FallbackVector], TRUE)

Shortest(a, b, c, d) == Min(Min(Len(a), Len(b)), Min(Len(c), Len(d)))

\* Lines 1482-1498: zip(records, primary_embeddings, keyword_embeddings,
\* context_embeddings) and the four vector fields of each record.
CombineVectors ==
    /\ row_loop.pc = "combine"
    /\ LET zipped == Shortest(row_loop.records, view_vectors["primary"],
                              view_vectors["keyword"], view_vectors["context"])
       IN row_loop' =
              [row_loop EXCEPT
                  !.pc = "done",
                  !.records =
                      [n \in DOMAIN row_loop.records |->
                          IF n <= zipped
                          THEN [row |-> row_loop.records[n].row,
                                vector |-> to_list(view_vectors["primary"][n]),
                                primary_vector |-> to_list(view_vectors["primary"][n]),
                                keyword_vector |-> to_list(view_vectors["keyword"][n]),
                                context_vector |-> to_list(view_vectors["context"][n])]
                          ELSE row_loop.records[n]]]
    /\ UNCHANGED <<source_rows, view_vectors>>

InitRows ==
    /\ files = <<>>
    /\ cache_stats = StatsInit
    /\ written = <<>>
    /\ last = [op |-> "init"]
    /\ GeneratorIdle
    /\ ValidatorIdle
    /\ MainIdle
    /\ SearchIdle
    /\ CardIdle
    /\ SharedIdle
    /\ \E n \in 0..MaxSourceRows :
          \E kinds \in [1..n -> RowKinds] :
              source_rows = [i \in 1..n |-> [id |-> i, name |-> kinds[i].name,
                                             text |-> kinds[i].text]]
    /\ row_loop = [pc |-> "rows", i |-> 1, primary_docs |-> <<>>,
                   keyword_docs |-> <<>>, context_docs |-> <<>>, records |-> <<>>,
                   fallback |-> {}]
    /\ view_vectors = <<>>

NextRows ==
    \/ RowPass /\ UNCHANGED notRowVars
    \/ RowsDone /\ UNCHANGED notRowVars
    \/ ViewEncoded /\ UNCHANGED notRowVars
    \/ ViewFellBack /\ UNCHANGED notRowVars
    \/ CombineVectors /\ UNCHANGED notRowVars

SpecRows == InitRows /\ [][NextRows]_vars

\* The rows the loop has passed and not skipped, in order.
KeptRows ==
    SelectSeq(SubSeq(source_rows, 1, row_loop.i - 1), LAMBDA row : row.name /\ row.text)

ExpectedVector(view, row) ==
    to_list(IF view \in row_loop.fallback THEN FallbackVector
            ELSE VectorOf(DocumentOf(view, row)))

\* C30: records and the three lists of documents have the same length and entry i
\* of each comes from the same source row, a skipped row adding to none; after the
\* combining the record of a row carries, for each view, the vector of that row's
\* own document of the view, or the zero vector where the view fell back, and
\* its legacy vector is its primary vector.
C30_RecordsAndVectorsAligned ==
    /\ row_loop.pc # "idle" =>
          /\ Len(row_loop.records) = Len(KeptRows)
          /\ Len(row_loop.primary_docs) = Len(KeptRows)
          /\ Len(row_loop.keyword_docs) = Len(KeptRows)
          /\ Len(row_loop.context_docs) = Len(KeptRows)
          /\ \A n \in DOMAIN KeptRows :
                /\ row_loop.records[n].row = KeptRows[n].id
                /\ row_loop.primary_docs[n] = DocumentOf("primary", KeptRows[n])
                /\ row_loop.keyword_docs[n] = DocumentOf("keyword", KeptRows[n])
                /\ row_loop.context_docs[n] = DocumentOf("context", KeptRows[n])
    /\ row_loop.pc = "done" =>
          \A n \in DOMAIN row_loop.records :
              LET record == row_loop.records[n]
              IN /\ DOMAIN record = {"row", "vector", "primary_vector",
                                     "keyword_vector", "context_vector"}
                 /\ record.primary_vector = ExpectedVector("primary", KeptRows[n])
                 /\ record.keyword_vector = ExpectedVector("keyword", KeptRows[n])
                 /\ record.context_vector = ExpectedVector("context", KeptRows[n])
                 /\ record.vector = record.primary_vector

\* Three rows of which the second is skipped, and the keyword view fell back.
C30_Witness_SkippedRowAndFallback ==
    /\ row_loop.pc = "done"
    /\ Len(source_rows) = 3
    /\ ~source_rows[2].name
    /\ Len(row_loop.records) = 2
    /\ row_loop.records[2].row = 3
    /\ row_loop.fallback = {"keyword"}
    /\ row_loop.records[2].primary_vector = to_list(VectorOf(<<"primary", 3>>))
    /\ row_loop.records[2].keyword_vector = to_list(FallbackVector)

-----------------------------------------------------------------------------
(* The cache directory shared by processes                                  *)
(*                                                                          *)
(* A build process and a query process each hold an EmbeddingCache on the   *)
(* same directory and work on one key, whose vector is "v" for both (the    *)
(* key is the hash of what the vector is computed from).  get and set are   *)
(* taken apart into their file-level steps: exists(), open(), pickle.load,  *)
(* unlink() for get; open("wb"), which creates or truncates, and the write  *)
(* of the pickle, which reaches the file when the with block closes it, for *)
(* set.  The directory is given by whether it exists, the inode its entry   *)
(* names (0: no entry) and the content of every inode; a process that has   *)
(* opened the entry holds its inode, whatever becomes of the name.          *)

MaxOps == 3                 \* calls of the processes, all in all
MaxDeletes == 1             \* deletions from outside

Procs == {"build", "query"}

NoStats == [hits |-> 0, misses |-> 0, saves |-> 0]
NoCounts == [gets |-> 0, returned |-> 0, written |-> 0]

\* EmbeddingCache.__init__, lines 877-880, in a process that has made no call.
NewProc == [pc |-> "idle", op |-> "none", fd |-> 0, ops |-> 0, cache_stats |-> NoStats,
            counts |-> NoCounts, after_set |-> FALSE]

OpsSoFar == procs["build"].ops + procs["query"].ops

EntryExists == cache_dir.exists /\ cache_dir.entry # 0

\* A counter that is left as it was.
NotCounted(stats, what) == stats

\* self.cache_stats[what] += 1
Counted(stats, what) == [stats EXCEPT ![what] = @ + 1]

GetReturned(p, ret) ==
    [history EXCEPT !.returns =
        @ \cup {[proc |-> p, op |-> procs[p].op, ret |-> ret,
                 after_set |-> procs[p].after_set]}]

\* Lines 902-903: hits += 1 and return embedding.
ReturnHit(p) ==
    /\ procs' = [procs EXCEPT ![p].pc = "idle",
                              ![p].fd = 0,
                              ![p].cache_stats = Counted(@, "hits"),
                              ![p].counts.returned = @ + 1]
    /\ history' = GetReturned(p, "v")

\* Lines 912-913: misses += 1 and return None; encode_with_cache goes on to the
\* model and to set (lines 1007-1017).
ReturnMiss(p) ==
    /\ procs' = [procs EXCEPT ![p].pc = IF procs[p].op = "encode" THEN "set_open"
                                        ELSE "idle",
                              ![p].fd = 0,
                              ![p].cache_stats = Counted(@, "misses")]
    /\ history' = IF procs[p].op = "encode" THEN history ELSE GetReturned(p, "None")

\* The exception leaves get.
UncaughtInGet(p) ==
    /\ procs' = [procs EXCEPT ![p].pc = "idle", ![p].fd = 0]
    /\ history' = [history EXCEPT !.raised = TRUE]

\* except Exception (line 904): on to the removal of the file.
CaughtInGet(p) ==
    /\ procs' = [procs EXCEPT ![p].pc = "get_unlink", ![p].fd = 0]
    /\ history' = history

Begin(p, op) ==
    [procs[p] EXCEPT !.op = op, !.ops = @ + 1, !.after_set = history.set_completed]

\* get, lines 895-898: the call and cache_path.exists().
GetExists(p, op) ==
    /\ procs[p].pc = "idle"
    /\ OpsSoFar < MaxOps
    /\ LET begun == [Begin(p, op) EXCEPT !.counts.gets = @ + 1]
       IN  IF EntryExists
           THEN /\ procs' = [procs EXCEPT ![p] = [begun EXCEPT !.pc = "get_open"]]
                /\ history' = history
           ELSE /\ procs' = [procs EXCEPT ![p] =
                                [begun EXCEPT
                                    !.pc = IF op = "encode" THEN "set_open" ELSE "idle",
                                    !.cache_stats = Counted(@, "misses")]]
                /\ history' = IF op = "encode" THEN history
                              ELSE [history EXCEPT !.returns =
                                       @ \cup {[proc |-> p, op |-> op, ret |-> "None",
                                                after_set |-> begun.after_set]}]
    /\ UNCHANGED cache_dir

\* Line 900: open(cache_path, "rb").
GetOpen(p) ==
    /\ procs[p].pc = "get_open"
    /\ IF EntryExists
       THEN /\ procs' = [procs EXCEPT ![p].pc = "get_read", ![p].fd = cache_dir.entry]
            /\ history' = history
       ELSE CaughtInGet(p)
    /\ UNCHANGED cache_dir

\* Line 901: pickle.load(f), of what the opened inode holds now.
GetRead(p) ==
    /\ procs[p].pc = "get_read"
    /\ IF cache_dir.inodes[procs[p].fd] = "v" THEN ReturnHit(p) ELSE CaughtInGet(p)
    /\ UNCHANGED cache_dir

\* Lines 907-910: cache_path.unlink(), whatever the name stands for by now; the
\* failure of unlink is passed over.
GetUnlink(p) ==
    /\ procs[p].pc = "get_unlink"
    /\ cache_dir' = [cache_dir EXCEPT !.entry = 0]
    /\ ReturnMiss(p)

\* set, lines 919-920: the call.
SetCall(p) ==
    /\ procs[p].pc = "idle"
    /\ OpsSoFar < MaxOps
    /\ procs' = [procs EXCEPT ![p] = [Begin(p, "set") EXCEPT !.pc = "set_open"]]
    /\ UNCHANGED <<cache_dir, history>>

EncodeReturned(p) ==
    IF procs[p].op = "encode" THEN GetReturned(p, "v") ELSE history

\* Line 923: open(cache_path, "wb") creates the entry or truncates it; without
\* the directory it raises, which line 926 catches.
SetOpen(p) ==
    /\ procs[p].pc = "set_open"
    /\ IF ~cache_dir.exists
       THEN /\ procs' = [procs EXCEPT ![p].pc = "idle"]
            /\ history' = EncodeReturned(p)
            /\ UNCHANGED cache_dir
       ELSE /\ IF cache_dir.entry # 0
               THEN /\ cache_dir' = [cache_dir EXCEPT !.inodes[cache_dir.entry] = "empty"]
                    /\ procs' = [procs EXCEPT ![p].pc = "set_write",
                                              ![p].fd = cache_dir.entry]
               ELSE /\ cache_dir' = [cache_dir EXCEPT
                                        !.inodes = Append(@, "empty"),
                                        !.entry = Len(cache_dir.inodes) + 1]
                    /\ procs' = [procs EXCEPT ![p].pc = "set_write",
                                              ![p].fd = Len(cache_dir.inodes) + 1]
            /\ history' = history

\* Lines 924-925: pickle.dump and the close of the file, then saves += 1.
SetWrite(p) ==
    /\ procs[p].pc = "set_write"
    /\ cache_dir' = [cache_dir EXCEPT !.inodes[procs[p].fd] = "v"]
    /\ procs' = [procs EXCEPT ![p].pc = "idle",
                              ![p].fd = 0,
                              ![p].cache_stats = Counted(@, "saves"),
                              ![p].counts.written = @ + 1]
    /\ history' = [EncodeReturned(p) EXCEPT !.set_completed = TRUE]

\* clear, lines 942-949: the directory, when it exists, is removed and made anew;
\* the counters start again.
Clear(p) ==
    /\ procs[p].pc = "idle"
    /\ OpsSoFar < MaxOps
    /\ cache_dir' = IF cache_dir.exists THEN [cache_dir EXCEPT !.entry = 0]
                    ELSE cache_dir
    /\ procs' = [procs EXCEPT ![p] = [Begin(p, "clear") EXCEPT
                                         !.cache_stats = NoStats,
                                         !.counts = NoCounts]]
    /\ history' = [history EXCEPT !.cleared = TRUE]

\* The entry file is deleted from outside.
DeleteEntry ==
    /\ history.deletes < MaxDeletes
    /\ EntryExists
    /\ cache_dir' = [cache_dir EXCEPT !.entry = 0]
    /\ history' = [history EXCEPT !.deletes = @ + 1]
    /\ UNCHANGED procs

\* The whole directory is deleted from outside.
DeleteDirectory ==
    /\ history.deletes < MaxDeletes
    /\ cache_dir.exists
    /\ cache_dir' = [cache_dir EXCEPT !.entry = 0, !.exists = FALSE]
    /\ history' = [history EXCEPT !.deletes = @ + 1]
    /\ UNCHANGED procs

InitShared ==
    /\ files = <<>>
    /\ cache_stats = StatsInit
    /\ written = <<>>
    /\ last = [op |-> "init"]
    /\ GeneratorIdle
    /\ ValidatorIdle
    /\ MainIdle
    /\ SearchIdle
    /\ CardIdle
    /\ RowsIdle
    /\ cache_dir \in {[exists |-> TRUE, entry |-> 0, inodes |-> <<>>],
                      [exists |-> TRUE, entry |-> 1, inodes |-> <<"v">>]}
    /\ procs = [p \in Procs |-> NewProc]
    /\ history = [returns |-> {}, set_completed |-> cache_dir.entry # 0,
                  raised |-> FALSE, deletes |-> 0, cleared |-> FALSE]

\* get and set calls of the two processes, and nothing else.
NextConcurrent ==
    \/ \E p \in Procs : GetExists(p, "get") /\ UNCHANGED notSharedVars
    \/ \E p \in Procs : GetOpen(p) /\ UNCHANGED notSharedVars
    \/ \E p \in Procs : GetRead(p) /\ UNCHANGED notSharedVars
    \/ \E p \in Procs : GetUnlink(p) /\ UNCHANGED notSharedVars
    \/ \E p \in Procs : SetCall(p) /\ UNCHANGED notSharedVars
    \/ \E p \in Procs : SetOpen(p) /\ UNCHANGED notSharedVars
    \/ \E p \in Procs : SetWrite(p) /\ UNCHANGED notSharedVars

SpecConcurrent == InitShared /\ [][NextConcurrent]_vars

\* The calls of the two processes, encode_with_cache and clear among them, and
\* deletions from outside.
NextShared ==
    \/ \E p \in Procs, op \in {"get", "encode"} :
           GetExists(p, op) /\ UNCHANGED notSharedVars
    \/ \E p \in Procs : GetOpen(p) /\ UNCHANGED notSharedVars
    \/ \E p \in Procs : GetRead(p) /\ UNCHANGED notSharedVars
    \/ \E p \in Procs : GetUnlink(p) /\ UNCHANGED notSharedVars
    \/ \E p \in Procs : SetCall(p) /\ UNCHANGED notSharedVars
    \/ \E p \in Procs : SetOpen(p) /\ UNCHANGED notSharedVars
    \/ \E p \in Procs : SetWrite(p) /\ UNCHANGED notSharedVars
    \/ \E p \in Procs : Clear(p) /\ UNCHANGED notSharedVars
    \/ DeleteEntry /\ UNCHANGED notSharedVars
    \/ DeleteDirectory /\ UNCHANGED notSharedVars

SpecShared == InitShared /\ [][NextShared]_vars

\* C23: under every interleaving of the file-level steps of get and set calls of
\* two processes on one key with one vector v, a get returns v or nothing, and a
\* get that starts after a set has completed returns v.
C23_CompletedEntryNeverLost ==
    \A r \in history.returns :
        /\ r.ret \in {"v", "None"}
        /\ r.after_set => r.ret = "v"

\* C24: files of the cache directory, or the directory itself, deleted between or
\* during the calls cost misses only: no get, set or encode_with_cache raises, a
\* get returns nothing or the vector that was stored, and encode_with_cache
\* returns the vector.
C24_DeletionOnlyCostsMisses ==
    /\ ~history.raised
    /\ \A r \in history.returns :
           /\ r.ret \in {"v", "None"}
           /\ r.op = "encode" => r.ret = "v"

\* The entry that was there is deleted under a get of the build process, the only
\* process at work, which returns nothing and counts a miss.
C24_Witness_EntryDeletedUnderGet ==
    /\ history.deletes = 1
    /\ cache_dir = [exists |-> TRUE, entry |-> 0, inodes |-> <<"v">>]
    /\ procs["query"].ops = 0
    /\ procs["build"].ops = 1
    /\ procs["build"].pc = "idle"
    /\ procs["build"].cache_stats = [hits |-> 0, misses |-> 1, saves |-> 0]
    /\ [proc |-> "build", op |-> "get", ret |-> "None", after_set |-> TRUE]
           \in history.returns

InGet(p) == procs[p].pc \in {"get_open", "get_read", "get_unlink"}

\* C29: in every process, between its calls, hits + misses is the number of get
\* calls since construction or the last clear, hits the number of gets that
\* returned a vector, and saves the number of set calls that wrote the entry.
C29_CountersMatchCalls ==
    \A p \in Procs :
        /\ ~InGet(p) =>
               /\ procs[p].cache_stats.hits + procs[p].cache_stats.misses
                      = procs[p].counts.gets
               /\ procs[p].cache_stats.hits = procs[p].counts.returned
        /\ procs[p].cache_stats.saves = procs[p].counts.written

\* A get that found the entry gone and a get that found it, in one process.
C29_Witness_HitAndVanishedEntry ==
    /\ procs["build"].pc = "idle"
    /\ procs["build"].cache_stats = [hits |-> 1, misses |-> 1, saves |-> 0]
    /\ procs["build"].counts.gets = 2
    /\ history.deletes = 1

=============================================================================
